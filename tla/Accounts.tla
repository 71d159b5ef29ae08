------------------------------- MODULE Accounts -------------------------------
(***************************************************************************)
(* Signing up, signing in and getting a first workspace:                   *)
(* web/lib/actions/auth.ts over web/lib/slug.ts, web/auth.ts and           *)
(* web/lib/password.ts.  A tab serves one form or page at a time, one      *)
(* query per step; no transaction spans two.                               *)
(*                                                                         *)
(* A person is an address; a password is a name and its hash itself.  A    *)
(* slug is the sequence of its words, so that a numbered slug can be       *)
(* somebody else's plain one; how it is cut to fit is below.               *)
(***************************************************************************)
EXTENDS Integers, Sequences, SequencesExt, FiniteSetsExt, TLC

CONSTANTS
  People,            \* email addresses
  Words(_),          \* the words of an address's local part, without its +tag
  Forms(_),          \* the passwords that are tried with an address
  Tabs,              \* forms and pages served at once
  NumberedAttempts,  \* slug.ts, at least 1: name, name-2, ..., name-N
  RandomAttempts,    \* slug.ts
  RandomSuffixes,    \* what Math.random() offers
  MaxMoves           \* bound: memberships gained and given up in other ways

\* A password that is tried is not what a row without one has.
ASSUME AccountsAssumption ==
  /\ NumberedAttempts \in Nat \ {0} /\ {RandomAttempts, MaxMoves} \subseteq Nat
  /\ \A p \in People : "nobody" \notin Forms(p)

VARIABLES
  users,       \* users[p]: "nobody", "github", or the password of the row
  session,     \* people signed in
  memberOf,    \* memberOf[p]: slugs of the workspaces p belongs to
  workspaces,  \* their slugs, unique
  tabs,        \* tabs[t]: the step t is at, for whom, and how many slugs it has tried;
               \* spare is history, see excused
  founded,     \* history: founded[p], workspaces made for p
  excused,     \* history: excused[p], those of them whose look for a membership came while another
               \* tab of p was making one, or after p had given one up
  moves        \* memberships gained and given up in other ways

accountVars == <<users, session, memberOf, workspaces, tabs, founded, excused, moves>>

NoForm == [pc |-> "idle", of |-> CHOOSE p \in People : TRUE, password |-> "", slug |-> <<>>, tries |-> 0, spare |-> FALSE]

AccountsInit ==
  /\ users = [p \in People |-> "nobody"]
  /\ session = {}
  /\ memberOf = [p \in People |-> {}]
  /\ workspaces = {}
  /\ tabs = [t \in Tabs |-> NoForm]
  /\ founded = [p \in People |-> 0] /\ excused = [p \in People |-> 0] /\ moves = 0

Free(t) == tabs[t].pc = "idle"
Leave(t) == tabs' = [tabs EXCEPT ![t] = NoForm]
Step(t, pc) == tabs' = [tabs EXCEPT ![t].pc = pc]
-----------------------------------------------------------------------------
(* The two forms, and GitHub *)

Open(t, p, password, pc) ==
  /\ Free(t)
  /\ tabs' = [tabs EXCEPT ![t] = [NoForm EXCEPT !.pc = pc, !.of = p, !.password = password]]
  /\ UNCHANGED <<users, session, memberOf, workspaces, founded, excused, moves>>

SignUp(t, p, password) == Open(t, p, password, "register")
SignIn(t, p, password) == Open(t, p, password, "credentials")

\* Bug: the address is upserted, and whoever signs up last sets the password.
Registered_Anew(t) == [users EXCEPT ![tabs[t].of] = tabs[t].password]

\* registerUser: the unique address decides; a taken one is nobody's error.
Registered(t) ==
  IF users[tabs[t].of] = "nobody" THEN [users EXCEPT ![tabs[t].of] = tabs[t].password] ELSE users

Register(t, works) ==
  /\ tabs[t].pc = "register"
  /\ IF works THEN users' = Registered(t) /\ Step(t, "credentials") ELSE Leave(t) /\ UNCHANGED users
  /\ UNCHANGED <<session, memberOf, workspaces, founded, excused, moves>>

\* authorize() in auth.ts: a row without a password, or none at all, is refused like a wrong one.
Credentials(t) ==
  /\ tabs[t].pc = "credentials"
  /\ IF users[tabs[t].of] = tabs[t].password
       THEN session' = session \cup {tabs[t].of} /\ Step(t, "find")
       ELSE Leave(t) /\ UNCHANGED session
  /\ UNCHANGED <<users, memberOf, workspaces, founded, excused, moves>>

\* The callback of Auth.js: accounts are not linked by address, and no workspace is made.
GitHub(p) ==
  /\ users[p] \in {"nobody", "github"} /\ p \notin session
  /\ users' = [users EXCEPT ![p] = "github"]
  /\ session' = session \cup {p}
  /\ UNCHANGED <<memberOf, workspaces, tabs, founded, excused, moves>>

\* /w, where signing in lands and anybody signed in may go.
Visit(t, p) == p \in session /\ memberOf[p] = {} /\ Open(t, p, "", "find")
-----------------------------------------------------------------------------
(* ensureWorkspaceForUser *)

Making(p) == {t \in Tabs : tabs[t].of = p /\ tabs[t].pc \in {"probe", "create"}}

Find(t) ==
  LET p == tabs[t].of IN
  /\ tabs[t].pc = "find"
  /\ IF memberOf[p] # {} THEN Leave(t)
       ELSE tabs' = [tabs EXCEPT ![t].pc = "probe", ![t].tries = 1,
                                 ![t].spare = Making(p) # {} \/ founded[p] > 0]
  /\ UNCHANGED <<users, session, memberOf, workspaces, founded, excused, moves>>

Base(t) == Words(tabs[t].of)

\* Bug: every try offers the plain name again.
Candidates_Plain(t) == {Base(t)}

\* What uniqueSlug offers at this try.
Candidates(t) ==
  CASE tabs[t].tries = 1 -> {Base(t)}
    [] tabs[t].tries \in 2 .. NumberedAttempts -> {Append(Base(t), ToString(tabs[t].tries))}
    [] OTHER -> {Append(Base(t), s) : s \in RandomSuffixes}

\* One query per candidate; SlugExhaustedError after the last.
Probe(t, slug) ==
  /\ tabs[t].pc = "probe" /\ slug \in Candidates(t)
  /\ CASE slug \notin workspaces -> tabs' = [tabs EXCEPT ![t].pc = "create", ![t].slug = slug]
       [] slug \in workspaces /\ tabs[t].tries < NumberedAttempts + RandomAttempts ->
            tabs' = [tabs EXCEPT ![t].tries = @ + 1]
       [] OTHER -> Leave(t)
  /\ UNCHANGED <<users, session, memberOf, workspaces, founded, excused, moves>>

\* workspace.create with its owner and its quota in one insert; a slug taken meanwhile throws.
Create(t) ==
  LET p == tabs[t].of slug == tabs[t].slug IN
  /\ tabs[t].pc = "create"
  /\ IF slug \in workspaces THEN UNCHANGED <<memberOf, workspaces, founded, excused>>
       ELSE /\ workspaces' = workspaces \cup {slug}
            /\ memberOf' = [memberOf EXCEPT ![p] = @ \cup {slug}]
            /\ founded' = [founded EXCEPT ![p] = @ + 1]
            /\ excused' = IF tabs[t].spare THEN [excused EXCEPT ![p] = @ + 1] ELSE excused
  /\ Leave(t)
  /\ UNCHANGED <<users, session, moves>>

\* Members: somebody else adds p, or p's membership ends, in a workspace with another member.
Join(p, slug) ==
  /\ moves < MaxMoves /\ users[p] # "nobody" /\ slug \in workspaces \ memberOf[p]
  /\ moves' = moves + 1
  /\ memberOf' = [memberOf EXCEPT ![p] = @ \cup {slug}]
  /\ UNCHANGED <<users, session, workspaces, tabs, founded, excused>>

GiveUp(p, slug) ==
  /\ moves < MaxMoves /\ slug \in memberOf[p]
  /\ \E q \in People \ {p} : slug \in memberOf[q]
  /\ moves' = moves + 1
  /\ memberOf' = [memberOf EXCEPT ![p] = @ \ {slug}]
  /\ UNCHANGED <<users, session, workspaces, tabs, founded, excused>>

Serve(t) ==
  \/ \E works \in BOOLEAN : Register(t, works)
  \/ Credentials(t) \/ Find(t) \/ Create(t)
  \/ \E slug \in Candidates(t) : Probe(t, slug)

AccountsNext ==
  \/ \E t \in Tabs, p \in People :
       \/ \E password \in Forms(p) : SignUp(t, p, password) \/ SignIn(t, p, password)
       \/ Visit(t, p)
  \/ \E t \in Tabs : Serve(t)
  \/ \E p \in People : GitHub(p) \/ \E slug \in workspaces : Join(p, slug) \/ GiveUp(p, slug)

(* A request that is being served goes on, and somebody signed in with        *)
(* nowhere to work opens /w again, sooner or later.                           *)
AccountsFairness ==
  /\ \A t \in Tabs : WF_accountVars(Serve(t))
  /\ \A p \in People : SF_accountVars(\E t \in Tabs : Visit(t, p))
-----------------------------------------------------------------------------
(* The types: nobody is signed in without an account, nobody belongs to a     *)
(* workspace that is not there, and no form has tried more slugs than there   *)
(* are to try.                                                                *)
AccountsTypeOK ==
  /\ \A p \in People : users[p] \in {"nobody", "github"} \cup Forms(p)
  /\ session \subseteq {p \in People : users[p] # "nobody"}
  /\ memberOf \in [People -> SUBSET workspaces]
  /\ \A t \in Tabs :
       /\ tabs[t].pc \in {"idle", "register", "credentials", "find", "probe", "create"}
       /\ tabs[t].tries \in 0 .. NumberedAttempts + RandomAttempts
       /\ tabs[t].pc \in {"find", "probe", "create"} => tabs[t].of \in session
  /\ founded \in [People -> Nat] /\ excused \in [People -> Nat] /\ moves \in 0 .. MaxMoves

(* An account is its first comer's: the password of a row is never replaced,  *)
(* so whoever fills the form for a taken address gets in only by knowing it.  *)
AccountIsKept == \A p \in People : users[p] = users'[p] \/ users[p] = "nobody"

(* A workspace has somebody in it from the moment it exists, and a person has *)
(* a second one made only when two of their requests raced or a membership    *)
(* was given up: the look before it saw none.                                 *)
NoneToSpare ==
  /\ \A slug \in workspaces : \E p \in People : slug \in memberOf[p]
  /\ \A p \in People : founded[p] <= 1 + excused[p]

(* Nobody who is signed in has nowhere to work.  A lost race for a slug does *)
(* leave them so, and the page they land on next makes up for it.             *)
SomewhereToWork == \A p \in session : memberOf[p] # {}

-----------------------------------------------------------------------------
(***************************************************************************)
(* What people type, and what is kept of it: the two forms of              *)
(* web/lib/actions/auth.ts over web/lib/password.ts, and the slugs of      *)
(* web/lib/slug.ts.  A text is a sequence of characters; it matters which  *)
(* are blank, which take two bytes, which are marks on the letter before   *)
(* and which a slug may hold.                                              *)
(***************************************************************************)
CONSTANTS
  MinPassword,  \* MIN_PASSWORD_LENGTH, in characters
  MaxBytes,     \* MAX_PASSWORD_BYTES
  MaxEmail, MaxName,
  MaxSlug,      \* MAX_LENGTH of a slug
  Fallback,     \* the slug of a name that leaves nothing
  Endings      \* numbers and random endings a slug may get

Within(s, from, to) == IF from > to THEN <<>> ELSE SubSeq(s, from, to)
Trim(s) ==
  LET solid == {i \in DOMAIN s : s[i] # " "} IN IF solid = {} THEN <<>> ELSE SubSeq(s, Min(solid), Max(solid))

\* UTF-8: a letter with an accent takes two bytes.
Encode(s) == FlattenSeq([i \in DOMAIN s |-> IF s[i] = "e'" THEN <<"e'1", "e'2">> ELSE <<s[i]>>])

\* z.email: letters of an address; its dots and its @ are left out.
IsAddress(s) == s # <<>> /\ ToSet(s) \subseteq {"a", "b"}

-----------------------------------------------------------------------------
(* The two forms *)

\* validateSignUp: the fields complained of, or what is written; a password goes nowhere but there.
SignUpErrors(f) ==
  {field \in {"name", "email", "password"} :
     CASE field = "name" -> Len(Trim(f.name)) > MaxName
       [] field = "email" -> Len(Trim(f.email)) > MaxEmail \/ ~IsAddress(Trim(f.email))
       [] OTHER -> Len(f.password) < MinPassword \/ Len(Encode(f.password)) > MaxBytes}

\* Bug: the password is trimmed by this form and by nothing else.
SignUpValue_Trimmed(f) == [name |-> Trim(f.name), email |-> Trim(f.email), password |-> Trim(f.password)]
SignUpValue(f) == [name |-> Trim(f.name), email |-> Trim(f.email), password |-> f.password]

\* bcrypt: the first bytes of a password, and nothing of the rest.
Bcrypt(s) == Within(Encode(s), 1, Min({Len(Encode(s)), MaxBytes}))

Storable(password) == password # <<>> /\ Len(Encode(password)) <= MaxBytes

\* registerUser: the row, or none when hashPassword throws.
RowOf_(value) == IF Storable(value.password) THEN {[email |-> value.email, hash |-> Bcrypt(value.password)]} ELSE {}

\* Bug: a candidate past the limit is left to bcrypt.
VerifyPassword_Longer(password, rows) == \E row \in rows : Bcrypt(password) = row.hash
VerifyPassword(password, rows) == Storable(password) /\ \E row \in rows : Bcrypt(password) = row.hash

\* The form of signing in asks for something to look up and something to check,
SignInAsks(f) == Trim(f.email) # <<>> /\ Len(Trim(f.email)) <= MaxEmail /\ f.password # <<>>

\* and authorize() looks the trimmed address up as it is stored.
Authorized(f, rows) == VerifyPassword(f.password, {row \in rows : row.email = Trim(f.email)})

-----------------------------------------------------------------------------
(* Slugs *)

SlugLetters == {"a", "b", "e", "2"}

\* NFKD without its marks, in lower case.
Fold_(c) == CASE c = "e'" -> <<"e">> [] c = "A" -> <<"a">> [] c = "'" -> <<>> [] OTHER -> <<c>>

\* Anything else becomes a hyphen, a row of it a single one.
Hyphened(s) ==
  FoldLeft(LAMBDA out, c : IF c \in SlugLetters THEN Append(out, c)
                           ELSE IF out # <<>> /\ Last(out) = "-" THEN out ELSE Append(out, "-"), <<>>, s)

Unhyphened(s) ==
  LET ends == {i \in DOMAIN s : s[i] # "-"} IN IF ends = {} THEN <<>> ELSE SubSeq(s, 1, Max(ends))

Cut_(s, most) == SubSeq(s, 1, Min({Len(s), most}))

\* Bug: the cut may leave a hyphen at the end.
Shortened_Only(s, most) == Cut_(s, most)
Shortened(s, most) == Unhyphened(Cut_(s, most))

Slugify(name) ==
  LET words == Unhyphened(Hyphened(FlattenSeq([i \in DOMAIN name |-> Fold_(name[i])])))
      slug == Shortened(IF words # <<>> /\ words[1] = "-" THEN Tail(words) ELSE words, MaxSlug)
  IN IF slug = <<>> THEN Fallback ELSE slug

WithSuffix(base, suffix) ==
  LET trimmed == Shortened(base, Max({MaxSlug - Len(suffix) - 1, 1}))
  IN (IF trimmed = <<>> THEN Fallback ELSE trimmed) \o <<"-">> \o suffix

-----------------------------------------------------------------------------
(* What the form of signing up lets through can be stored, and then opens the *)
(* account it made, typed into the other form with the same password, blanks  *)
(* and all, and an address the same but for the blanks around it; nothing     *)
(* else opens it, a password that goes on past what bcrypt reads included.    *)
FormsTell(first, second) ==
  LET value == SignUpValue(first)
      rows == RowOf_(value)
      opens == SignInAsks(second) /\ Authorized(second, rows)
  IN SignUpErrors(first) = {} =>
       /\ rows # {}
       /\ opens <=> Trim(second.email) = Trim(first.email) /\ second.password = first.password

\* A slug and those tried after it, by the ending.
SlugsDiffer(base, tries) ==
  LET IsSlug(s) ==
        /\ s # <<>> /\ Len(s) <= MaxSlug /\ ToSet(s) \subseteq SlugLetters \cup {"-"}
        /\ s[1] # "-" /\ Last(s) # "-" /\ \A i \in 1 .. Len(s) - 1 : s[i] # "-" \/ s[i + 1] # "-"
        /\ Slugify(s) = s
  IN /\ \A s \in {base} \cup {tries[t] : t \in Endings} : IsSlug(s)
     /\ \A s, t \in Endings : tries[s] = tries[t] => s = t
     /\ Cardinality({s \in Endings : tries[s] = base}) <= 1

(* Whatever a workspace is called, its slug and every slug tried after it is  *)
(* letters and single hyphens between them, fits, and is a slug of itself;    *)
(* no two endings make the same, and only one can make the plain one again.   *)
SlugsTell(name) ==
  LET From(base) == SlugsDiffer(base, [s \in Endings |-> WithSuffix(base, s)]) IN From(Slugify(name))
=============================================================================
