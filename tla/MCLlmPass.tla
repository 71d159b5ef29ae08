------------------------------ MODULE MCLlmPass ------------------------------
(* Two programs and two keys, one of which is never given allowance again.  *)
EXTENDS LlmPass

SomePrograms == <<"p1", "p2">>
TwoKeys == <<"k1", "k2">>
OnlyGroq == <<"groq">>
GeminiFirst == <<"gemini", "groq">>
=============================================================================
