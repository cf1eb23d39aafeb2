---------------------------- MODULE UserListProofs ----------------------------
(***************************************************************************)
(* Theorems about UserList, for any number of users, operators, commands   *)
(* and changes of the database: type correctness, EveryLineWasTrue and     *)
(* ListAddsUp, from one inductive invariant.                               *)
(***************************************************************************)
EXTENDS UserList, FiniteSetTheorems, FunctionTheorems, SequenceTheorems, TLAPS

(***************************************************************************)
(* Numbers in ascending order.                                             *)
(***************************************************************************)

Increasing(s) == \A i, j \in DOMAIN s : i < j => s[i] < s[j]

\* How many numbers of S are not above x.
Rank(S, x) == Cardinality({y \in S : y <= x})

LEMMA RankIncreases ==
    ASSUME NEW S \in SUBSET Nat, IsFiniteSet(S), NEW x \in S, NEW y \in S, x < y
    PROVE  Rank(S, x) < Rank(S, y)
  <1> DEFINE X == {z \in S : z <= x}
             Y == {z \in S : z <= y}
  <1>0. \A z \in S : z \in Nat
    OBVIOUS
  <1>1. X \in SUBSET Y /\ Y \in SUBSET S /\ y \in Y /\ y \notin X
    <2>1. \A z \in S : z <= x => z <= y
      BY <1>0
    <2>2. ~(y <= x) /\ y <= y
      BY <1>0
    <2>3. QED
      BY <2>1, <2>2
  <1>2. IsFiniteSet(Y)
    BY <1>1, FS_Subset
  <1>3. Cardinality(X) <= Cardinality(Y) /\ Cardinality(X) # Cardinality(Y)
    BY <1>1, <1>2, FS_Subset
  <1>4. Cardinality(X) \in Nat /\ Cardinality(Y) \in Nat
    BY <1>1, <1>2, FS_Subset, FS_CardinalityType
  <1>5. QED
    BY <1>3, <1>4 DEF Rank

LEMMA RankInRange ==
    ASSUME NEW S \in SUBSET Nat, IsFiniteSet(S), NEW x \in S
    PROVE  Rank(S, x) \in 1 .. Cardinality(S)
  <1> DEFINE X == {z \in S : z <= x}
  <1>1. X \in SUBSET S /\ x \in X
    OBVIOUS
  <1>2. IsFiniteSet(X) /\ Cardinality(X) <= Cardinality(S)
    BY <1>1, FS_Subset
  <1>3. Cardinality(X) \in Nat /\ Cardinality(S) \in Nat /\ Cardinality(X) # 0
    BY <1>1, <1>2, FS_CardinalityType, FS_EmptySet
  <1>4. QED
    BY <1>2, <1>3 DEF Rank

\* Every finite set of naturals can be counted from the least to the greatest ...
LEMMA AscendingExists ==
    ASSUME NEW S \in SUBSET Nat, IsFiniteSet(S)
    PROVE  \E s \in [1 .. Cardinality(S) -> S] : Increasing(s)
  <1> DEFINE n == Cardinality(S)
             rank == [x \in S |-> Rank(S, x)]
  <1>1. n \in Nat
    BY FS_CardinalityType
  <1>2. rank \in [S -> 1 .. n]
    BY RankInRange
  <1>3. ASSUME NEW x \in S, NEW y \in S, x < y PROVE rank[x] < rank[y]
    BY <1>3, RankIncreases
  <1> HIDE DEF rank
  <1>4. ASSUME NEW x \in S, NEW y \in S, rank[x] = rank[y] PROVE x = y
    <2>1. x \in Nat /\ y \in Nat /\ rank[x] \in Int
      BY <1>2
    <2>2. ~(x < y) /\ ~(y < x)
      BY <1>3, <1>4, <2>1
    <2>3. QED
      BY <2>1, <2>2
  <1>5. rank \in Injection(S, 1 .. n)
    BY <1>2, <1>4, Fun_IsInj
  <1>6. IsFiniteSet(1 .. n) /\ Cardinality(1 .. n) = n
    BY <1>1, FS_Interval
  <1>7. rank \in Surjection(S, 1 .. n)
    BY <1>5, <1>6, FS_Injection
  <1>8. \A i \in 1 .. n : \E x \in S : rank[x] = i
    BY <1>7 DEF Surjection
  <1> DEFINE s == [i \in 1 .. n |-> CHOOSE x \in S : rank[x] = i]
  <1>9. \A i \in 1 .. n : s[i] \in S /\ rank[s[i]] = i
    BY <1>8
  <1>10. s \in [1 .. n -> S]
    BY <1>9
  <1>11. ASSUME NEW i \in 1 .. n, NEW j \in 1 .. n, i < j PROVE s[i] < s[j]
    <2>1. s[i] \in S /\ s[j] \in S /\ rank[s[i]] = i /\ rank[s[j]] = j
      BY <1>9
    <2>2. s[i] \in Nat /\ s[j] \in Nat
      BY <2>1
    <2>3. s[j] # s[i] /\ ~(s[j] < s[i])
      <3> HIDE DEF s
      <3>1. i \in Int /\ j \in Int
        OBVIOUS
      <3>2. ASSUME s[j] < s[i] PROVE FALSE
        <4>1. rank[s[j]] < rank[s[i]]
          BY <1>3, <2>1, <3>2
        <4>2. QED
          BY <1>11, <2>1, <3>1, <4>1
      <3>3. s[j] # s[i]
        BY <1>11, <2>1, <3>1
      <3>4. QED
        BY <3>2, <3>3
    <2>4. QED
      BY <2>2, <2>3
  <1>12. QED
    BY <1>10, <1>11 DEF Increasing

\* ... and that is what Ascending does: in order, and leaving nothing out.
LEMMA AscendingCounts ==
    ASSUME NEW S \in SUBSET Nat, IsFiniteSet(S)
    PROVE  /\ Cardinality(S) \in Nat
           /\ Ascending(S) \in [1 .. Cardinality(S) -> S]
           /\ Increasing(Ascending(S))
           /\ \A x \in S : \E i \in 1 .. Cardinality(S) : Ascending(S)[i] = x
  <1> DEFINE n == Cardinality(S)
             s == Ascending(S)
  <1>1. n \in Nat
    BY FS_CardinalityType
  <1>2. s \in [1 .. n -> S] /\ Increasing(s)
    BY AscendingExists DEF Ascending, Increasing
  <1> HIDE DEF s
  <1>3. ASSUME NEW i \in 1 .. n, NEW j \in 1 .. n, s[i] = s[j] PROVE i = j
    <2>1. s[i] \in S /\ s[j] \in S
      BY <1>2
    <2>2. s[i] \in Nat /\ s[j] \in Nat
      BY <2>1
    <2>3. i \in Int /\ j \in Int
      BY <1>1
    <2>4. /\ i < j => s[i] < s[j]
          /\ j < i => s[j] < s[i]
      <3>1. i \in DOMAIN s /\ j \in DOMAIN s
        BY <1>2
      <3>2. QED
        BY <1>2, <3>1 DEF Increasing
    <2>5. QED
      BY <1>3, <2>2, <2>3, <2>4
  <1>4. s \in Injection(1 .. n, S)
    BY <1>2, <1>3, Fun_IsInj
  <1>5. IsFiniteSet(1 .. n) /\ Cardinality(1 .. n) = n
    BY <1>1, FS_Interval
  <1>6. s \in Surjection(1 .. n, S)
    BY <1>4, <1>5, FS_Injection
  <1>7. QED
    BY <1>1, <1>2, <1>6, Fun_SurjectionProperties DEF s

(***************************************************************************)
(* The inductive invariant.                                                *)
(***************************************************************************)

\* What u can have for credentials: nobody else's.
CredsOf(u) == [login : {Login(u, n) : n \in 0 .. MaxEdits} \cup {None},
               hash : {Hash(u, n) : n \in 0 .. MaxEdits} \cup {None}]

CredInv == \A u \in Users : cred[u] # None => cred[u] \in CredsOf(u) \cap ever

Distinct(s) == \A i, j \in DOMAIN s : i # j => s[i] # s[j]

\* What a command has in hand, up to its write.
CommandInv(o) ==
    /\ Range(rows[o]) \subseteq ever
    /\ Range(seen[o]) \subseteq ever \cup {Blank}
    /\ command[o] # "delete" => Distinct(rows[o]) /\ Blank \notin Range(rows[o])
    /\ pc[o] = "idle" => rows[o] = <<>>
    /\ command[o] = "delete" => Len(rows[o]) <= 3
    /\ pc[o] = "write" /\ command[o] = "insert" => Range(seen[o]) \cap Duplicate(o) = {}
    /\ pc[o] = "write" /\ command[o] = "delete" => rows[o] # <<>>
    /\ pc[o] = "emptied" => command[o] = "create"

\* What a command finds at the second system call of its write, as long as
\* nobody has met the first: the list is its own, and only to be completed.
MidInv(o) ==
    ~torn =>
        /\ pc[o] = "emptied" => kept = Range(rows[o])
        /\ pc[o] = "overwritten" =>
              /\ Len(Remaining(o)) <= Len(file)
              /\ SubSeq(file, 1, Len(Remaining(o))) = Remaining(o)
              /\ ~raced => AddsUp(Remaining(o))

OneMid == ~torn => \A p, q \in Operators : Mid(p) /\ Mid(q) => p = q

FileInv == EveryLineWasTrue /\ ListAddsUp

UserListInv ==
    /\ TypeOK /\ CredInv /\ FileInv /\ OneMid
    /\ \A o \in Operators : CommandInv(o) /\ MidInv(o)

LEMMA OwnCreds ==
    ASSUME NEW u \in Users
    PROVE  CredsOf(u) \subseteq Creds
  BY DEF CredsOf, Creds, Logins, Hashes

\* Two users can only have the same credentials if both have none.
LEMMA OthersHaveOthers ==
    ASSUME NEW u \in Users, NEW v \in Users, u # v,
           NEW c \in CredsOf(u), c \in CredsOf(v)
    PROVE  c = Blank
  <1>1. c.login = None
    BY DEF CredsOf, Login
  <1>2. c.hash = None
    BY DEF CredsOf, Hash
  <1>3. QED
    BY <1>1, <1>2 DEF CredsOf, Blank

\* A row for each user found, and nothing else.
LEMMA RowsOfUsers ==
    ASSUME TypeOK, CredInv, NEW U \in SUBSET Users
    PROVE  /\ Found(U) \in Seq(Creds)
           /\ Range(Found(U)) \subseteq ever
           /\ Blank \notin Range(Found(U)) => Distinct(Found(U))
  <1> DEFINE S == {u \in U : cred[u] # None}
  <1>1. S \in SUBSET Nat /\ S \in SUBSET Users /\ IsFiniteSet(S)
    BY UsersAssumption, FS_Subset
  <1>2. PICK known : known = Ascending(S)
    OBVIOUS
  <1>3. PICK n : n = Cardinality(S)
    OBVIOUS
  <1>4. n \in Nat /\ known \in [1 .. n -> S] /\ Increasing(known)
    BY <1>1, <1>2, <1>3, AscendingCounts
  <1>5. Found(U) = [i \in 1 .. n |-> cred[known[i]]]
    BY <1>2, <1>4 DEF Found
  <1>6. \A i \in 1 .. n : known[i] \in Users /\ cred[known[i]] # None
    BY <1>4
  <1>7. \A i \in 1 .. n : cred[known[i]] \in CredsOf(known[i]) \cap ever
    BY <1>6 DEF CredInv
  <1>8. \A i \in 1 .. n : cred[known[i]] \in Creds
    BY <1>6, <1>7, OwnCreds
  <1>9. Found(U) \in Seq(Creds)
    BY <1>4, <1>5, <1>8
  <1>10. Range(Found(U)) \subseteq ever
    BY <1>5, <1>7 DEF Range
  <1>11. ASSUME NEW i \in 1 .. n, NEW j \in 1 .. n, i # j,
                cred[known[i]] = cred[known[j]]
         PROVE  cred[known[i]] = Blank
    <2>1. known[i] # known[j]
      <3>1. known[i] \in Nat /\ known[j] \in Nat
        BY <1>4, <1>6, UsersAssumption
      <3>2. i < j \/ j < i
        BY <1>4, <1>11
      <3>3. known[i] < known[j] \/ known[j] < known[i]
        BY <1>4, <3>2 DEF Increasing
      <3>4. QED
        BY <3>1, <3>3
    <2>2. QED
      BY <1>6, <1>7, <1>11, <2>1, OthersHaveOthers
  <1>12. Blank \notin Range(Found(U)) => Distinct(Found(U))
    BY <1>5, <1>11 DEF Range, Distinct
  <1>13. QED
    BY <1>9, <1>10, <1>12

\* No line but a blank one is there twice.
OnceEach(s) == \A i, j \in DOMAIN s : i # j /\ s[i] = s[j] => s[i] = Blank

\* The lines that are left, in their order.
LEMMA LinesLeft ==
    ASSUME TypeOK, NEW o \in Operators
    PROVE  /\ Remaining(o) \in Seq(Creds)
           /\ Range(Remaining(o)) =
                  {line \in Range(seen[o]) : ~Matches(line, Targets(o))}
           /\ OnceEach(seen[o]) => OnceEach(Remaining(o))
  <1> PICK s : s = seen[o]
    OBVIOUS
  <1> PICK T : T = Targets(o)
    OBVIOUS
  <1> DEFINE S == {i \in DOMAIN s : ~Matches(s[i], T)}
  <1>1. s \in Seq(Creds) /\ DOMAIN s = 1 .. Len(s) /\ Len(s) \in Nat
    BY DEF TypeOK
  <1>2. S \in SUBSET Nat /\ S \in SUBSET DOMAIN s /\ IsFiniteSet(S)
    <2>1. S \in SUBSET (1 .. Len(s))
      BY <1>1
    <2>2. \A i \in 1 .. Len(s) : i \in Nat
      BY <1>1
    <2>3. IsFiniteSet(1 .. Len(s))
      BY <1>1, FS_Interval
    <2>4. IsFiniteSet(S)
      BY <2>1, <2>3, FS_Subset
    <2> HIDE DEF S
    <2>5. QED
      BY <1>1, <2>1, <2>2, <2>4
  <1>3. PICK left : left = Ascending(S)
    OBVIOUS
  <1>4. PICK n : n = Cardinality(S)
    OBVIOUS
  <1>5. /\ n \in Nat /\ left \in [1 .. n -> S] /\ Increasing(left)
        /\ \A x \in S : \E i \in 1 .. n : left[i] = x
    BY <1>2, <1>3, <1>4, AscendingCounts
  <1>6. Remaining(o) = [i \in 1 .. n |-> s[left[i]]]
    BY <1>3, <1>5 DEF Remaining
  <1>7. \A i \in 1 .. n : left[i] \in DOMAIN s /\ ~Matches(s[left[i]], T)
    BY <1>5
  <1> HIDE DEF S
  <1>8. Remaining(o) \in Seq(Creds) /\ Len(Remaining(o)) = n
    BY <1>1, <1>5, <1>6, <1>7
  <1>9. Range(Remaining(o)) = {line \in Range(s) : ~Matches(line, T)}
    BY <1>5, <1>6, <1>7 DEF Range, S
  <1>10. ASSUME NEW i \in 1 .. n, NEW j \in 1 .. n, i < j
         PROVE  left[i] \in Nat /\ left[j] \in Nat /\ left[i] < left[j]
    BY <1>1, <1>5, <1>7, <1>10 DEF Increasing
  <1>11. OnceEach(s) => OnceEach(Remaining(o))
    <2> SUFFICES ASSUME OnceEach(s), NEW i \in 1 .. n, NEW j \in 1 .. n, i # j,
                        s[left[i]] = s[left[j]]
                 PROVE  s[left[i]] = Blank
      BY <1>6 DEF OnceEach
    <2>1. i < j \/ j < i
      BY <1>5
    <2>2. left[i] # left[j]
      BY <1>10, <2>1
    <2>3. QED
      BY <1>7, <2>2 DEF OnceEach
  <1>12. QED
    BY <1>8, <1>9, <1>11

\* The list begins with what was written over it.
LEMMA WrittenFirst ==
    ASSUME NEW S, NEW s \in Seq(S), NEW t \in Seq(S)
    PROVE  /\ s \o SubSeq(t, Len(s) + 1, Len(t)) \in Seq(S)
           /\ Len(s) <= Len(s \o SubSeq(t, Len(s) + 1, Len(t)))
           /\ SubSeq(s \o SubSeq(t, Len(s) + 1, Len(t)), 1, Len(s)) = s
  <1> PICK u : u = SubSeq(t, Len(s) + 1, Len(t))
    OBVIOUS
  <1>1. Len(s) \in Nat /\ Len(t) \in Nat /\ DOMAIN s = 1 .. Len(s)
    OBVIOUS
  <1>2. \A i \in Len(s) + 1 .. Len(t) : t[i] \in S
    BY <1>1
  <1>3. u \in Seq(S)
    BY <1>1, <1>2, SubSeqProperties
  <1>4. PICK all : all = s \o u
    OBVIOUS
  <1>5. /\ all \in Seq(S) /\ Len(all) = Len(s) + Len(u)
        /\ \A i \in 1 .. Len(s) : all[i] = s[i]
    BY <1>3, <1>4
  <1>6. Len(u) \in Nat
    BY <1>3
  <1>7. Len(s) <= Len(all)
    BY <1>1, <1>5, <1>6
  <1>8. PICK front : front = SubSeq(all, 1, Len(s))
    OBVIOUS
  <1>9. \A i \in 1 .. Len(s) : all[i] \in S
    BY <1>1, <1>5
  <1>10. /\ front \in Seq(S)
         /\ Len(front) = IF 1 <= Len(s) THEN Len(s) - 1 + 1 ELSE 0
         /\ \A i \in 1 .. Len(s) - 1 + 1 : front[i] = all[1 + i - 1]
    BY <1>1, <1>8, <1>9, SubSeqProperties
  <1>11. Len(front) = Len(s)
    BY <1>1, <1>10
  <1>12. \A i \in 1 .. Len(s) : front[i] = s[i]
    BY <1>1, <1>5, <1>10
  <1>13. front = s
    BY <1>1, <1>10, <1>11, <1>12
  <1>14. QED
    BY <1>3, <1>4, <1>5, <1>7, <1>8, <1>13

(***************************************************************************)
(* Type correctness.                                                       *)
(***************************************************************************)

LEMMA TypeInit == Init => TypeOK
  <1> SUFFICES ASSUME Init PROVE TypeOK
    OBVIOUS
  <1>1. {cred[u] : u \in Users} \ {None} \subseteq Creds
    BY DEF Init
  <1>2. <<>> \in Seq(Creds)
    OBVIOUS
  <1>3. cred \in [Users -> Creds \cup {None}] /\ ever \subseteq Creds
    BY <1>1 DEF Init
  <1>4. /\ pc = [o \in Operators |-> "idle"]
        /\ command = [o \in Operators |-> "none"]
        /\ asked = [o \in Operators |-> {}]
        /\ rows = [o \in Operators |-> <<>>]
        /\ seen = [o \in Operators |-> <<>>]
    BY DEF Init
  <1>5. exists = FALSE /\ file = <<>> /\ edits = 0 /\ commands = 0 /\ kept = {}
        /\ doubtful = {} /\ raced = FALSE /\ torn = FALSE
    BY DEF Init
  <1>6. rows \in [Operators -> Seq(Creds)] /\ seen \in [Operators -> Seq(Creds)]
    BY <1>2, <1>4
  <1>7. /\ pc \in [Operators -> {"idle", "fetch", "read", "write",
                                 "emptied", "overwritten", "deleted"}]
        /\ command \in [Operators -> {"none", "create", "insert", "delete"}]
        /\ asked \in [Operators -> SUBSET Users]
        /\ \A o \in Operators : command[o] = "create" => pc[o] # "read"
    BY <1>4
  <1>8. /\ exists \in BOOLEAN /\ raced \in BOOLEAN /\ torn \in BOOLEAN
        /\ file \in Seq(Creds) /\ kept \subseteq Creds /\ doubtful \subseteq Creds
    BY <1>2, <1>5
  <1>9. edits \in 0 .. MaxEdits /\ commands \in 0 .. MaxCommands
    BY <1>5, BoundsAssumption
  <1>10. QED
    BY <1>3, <1>6, <1>7, <1>8, <1>9 DEF TypeOK

LEMMA UserSteps ==
    ASSUME TypeOK, CredInv, NEW u \in Users,
           CreatesUser(u) \/ UpdatesUser(u) \/ DeletesUser(u)
    PROVE  \E c \in CredsOf(u) \cup {None} : SetsCred(u, c)
  <1>1. CASE CreatesUser(u)
    <2>1. PICK c \in NewCreds(u, edits + 1) : SetsCred(u, c)
      BY <1>1 DEF CreatesUser
    <2>2. edits + 1 \in 0 .. MaxEdits
      BY <2>1, BoundsAssumption DEF SetsCred, TypeOK
    <2>3. c \in CredsOf(u)
      BY <2>2 DEF NewCreds, CredsOf, Blank
    <2>4. QED
      BY <2>1, <2>3
  <1>2. CASE UpdatesUser(u)
    <2>1. PICK login \in {cred[u].login, Login(u, edits + 1)},
               hash \in {cred[u].hash, Hash(u, edits + 1)} :
                   SetsCred(u, [login |-> login, hash |-> hash])
      BY <1>2 DEF UpdatesUser
    <2>2. edits + 1 \in 0 .. MaxEdits
      BY <2>1, BoundsAssumption DEF SetsCred, TypeOK
    <2>3. cred[u] \in CredsOf(u)
      BY <1>2 DEF UpdatesUser, CredInv
    <2>4. [login |-> login, hash |-> hash] \in CredsOf(u)
      BY <2>2, <2>3 DEF CredsOf
    <2>5. QED
      BY <2>1, <2>4
  <1>3. CASE DeletesUser(u)
    BY <1>3 DEF DeletesUser
  <1>4. QED
    BY <1>1, <1>2, <1>3

LEMMA LinesOfRows ==
    ASSUME TypeOK, NEW o \in Operators
    PROVE  Lines(rows[o]) \in Seq(Creds)
  <1>1. Blank \in Creds
    BY DEF Blank, Creds, Logins, Hashes
  <1>2. QED
    BY <1>1 DEF Lines, TypeOK

LEMMA EndsType ==
    ASSUME TypeOK, NEW o \in Operators, Ends(o)
    PROVE  /\ pc' \in [Operators -> {"idle", "fetch", "read", "write",
                                      "emptied", "overwritten", "deleted"}]
           /\ command' \in [Operators -> {"none", "create", "insert", "delete"}]
           /\ asked' \in [Operators -> SUBSET Users]
           /\ rows' \in [Operators -> Seq(Creds)]
           /\ seen' \in [Operators -> Seq(Creds)]
           /\ \A q \in Operators : command'[q] = "create" => pc'[q] # "read"
  <1>1. <<>> \in Seq(Creds)
    OBVIOUS
  <1>2. QED
    BY <1>1 DEF Ends, TypeOK

LEMMA TypeStep == UserListInv /\ [Next]_vars => TypeOK'
  <1> SUFFICES ASSUME UserListInv, [Next]_vars PROVE TypeOK'
    OBVIOUS
  <1>0. TypeOK /\ CredInv /\ \A o \in Operators : MidInv(o)
    BY DEF UserListInv
  <1> USE BoundsAssumption DEF dbVars, fileVars, commandVars
  <1>1. ASSUME NEW u \in Users, CreatesUser(u) \/ UpdatesUser(u) \/ DeletesUser(u)
        PROVE  TypeOK'
    <2>1. PICK c \in CredsOf(u) \cup {None} : SetsCred(u, c)
      BY <1>0, <1>1, UserSteps
    <2>2. c \in Creds \cup {None}
      BY OwnCreds
    <2>3. QED
      BY <1>0, <2>1, <2>2 DEF SetsCred, TypeOK
  <1>2. ASSUME NEW o \in Operators, Command(o) PROVE TypeOK'
    <2> USE <1>0
    <2>1. CASE \E c \in Commands, U \in SUBSET Users : Begins(o, c, U)
      BY <2>1 DEF Begins, Commands, TypeOK
    <2>2. CASE Fetches(o)
      <3>1. asked[o] \in SUBSET Users
        BY DEF TypeOK
      <3>2. Found(asked[o]) \in Seq(Creds)
        BY <3>1, RowsOfUsers
      <3>3. QED
        BY <2>2, <3>2 DEF Fetches, TypeOK
    <2>3. CASE Reads(o)
      BY <2>3 DEF Reads, TypeOK
    <2>4. CASE FetchFails(o) \/ NothingToDo(o) \/ Declines(o) \/ Reports(o)
      <3>1. Ends(o) /\ UNCHANGED fileVars
        BY <2>4 DEF FetchFails, NothingToDo, Declines, Reports
      <3>2. QED
        BY <3>1, EndsType DEF Ends, TypeOK
    <2>5. CASE OpensNew(o)
      <3>1. file' \in Seq(Creds) /\ kept' \subseteq Creds /\ doubtful' \subseteq Creds
        BY <2>5 DEF OpensNew, Writes, TypeOK, Range
      <3>2. exists' \in BOOLEAN /\ raced' \in BOOLEAN /\ UNCHANGED torn
        BY <2>5 DEF OpensNew, Writes, TypeOK
      <3>3. QED
        BY <2>5, <3>1, <3>2 DEF OpensNew, TypeOK
    <2>6. CASE Creates(o)
      <3>1. Ends(o) /\ file' \in Seq(Creds) /\ UNCHANGED <<exists, kept, doubtful, raced, torn>>
        BY <2>6 DEF Creates, TypeOK
      <3>2. QED
        BY <3>1, EndsType DEF Ends, TypeOK
    <2>7. CASE Inserts(o)
      <3>1. file' \in Seq(Creds) /\ kept' \subseteq Creds /\ UNCHANGED <<doubtful, torn>>
        BY <2>7, LinesOfRows DEF Inserts, Writes, TypeOK, Range
      <3>2. Ends(o) /\ exists' \in BOOLEAN /\ raced' \in BOOLEAN
        BY <2>7 DEF Inserts, Writes, TypeOK
      <3>3. QED
        BY <3>1, <3>2, EndsType DEF Ends, TypeOK
    <2>8. CASE Overwrites(o)
      <3>1. file' = Remaining(o) \o SubSeq(file, Len(Remaining(o)) + 1, Len(file))
        BY <2>8 DEF Overwrites, Writes
      <3>2. Remaining(o) \in Seq(Creds) /\ file \in Seq(Creds)
        BY LinesLeft DEF TypeOK
      <3>3. file' \in Seq(Creds)
        BY <3>1, <3>2, WrittenFirst
      <3>4. kept' \subseteq Creds /\ doubtful' \subseteq Creds
        BY <2>8 DEF Overwrites, Named, NamedFirst, TypeOK
      <3>5. exists' \in BOOLEAN /\ raced' \in BOOLEAN /\ UNCHANGED torn
        BY <2>8 DEF Overwrites, Writes, TypeOK
      <3>6. QED
        BY <2>8, <3>3, <3>4, <3>5 DEF Overwrites, TypeOK
    <2>9. CASE Deletes(o)
      <3>1. ~torn /\ pc[o] = "overwritten"
        BY <1>2, <2>9 DEF Deletes, Command
      <3>2. file' = Remaining(o)
        BY <2>9, <3>1 DEF Deletes, MidInv
      <3>3. file' \in Seq(Creds)
        BY <3>2, LinesLeft
      <3>4. QED
        BY <2>9, <3>3 DEF Deletes, TypeOK
    <2>10. CASE Tears(o)
      BY <2>10 DEF Tears, TypeOK
    <2>11. CASE Interrupted(o)
      <3>1. Ends(o) /\ torn' = TRUE /\ UNCHANGED <<exists, file, kept, doubtful, raced>>
        BY <2>11 DEF Interrupted
      <3>2. QED
        BY <3>1, EndsType DEF Ends, TypeOK
    <2>12. QED
      BY <1>2, <2>1, <2>2, <2>3, <2>4, <2>5, <2>6, <2>7, <2>8, <2>9, <2>10, <2>11
      DEF Command
  <1>3. CASE UNCHANGED vars
    BY <1>0, <1>3 DEF vars, TypeOK
  <1>4. QED
    BY <1>1, <1>2, <1>3 DEF Next

(***************************************************************************)
(* The invariant is inductive.                                             *)
(***************************************************************************)

LEMMA InvInit == Init => UserListInv
  <1> SUFFICES ASSUME Init PROVE UserListInv
    OBVIOUS
  <1>1. CredInv
    <2> SUFFICES ASSUME NEW u \in Users, cred[u] # None
                 PROVE  cred[u] \in CredsOf(u) /\ cred[u] \in ever
      BY DEF CredInv
    <2>1. cred[u] \in NewCreds(u, 0)
      BY DEF Init
    <2>2. 0 \in 0 .. MaxEdits
      BY BoundsAssumption
    <2>3. QED
      BY <2>1, <2>2 DEF NewCreds, CredsOf, Blank, Init
  <1>2. FileInv
    BY DEF Init, FileInv, EveryLineWasTrue, ListAddsUp, AddsUp, Range
  <1>3. ASSUME NEW o \in Operators PROVE pc[o] = "idle" /\ CommandInv(o)
    BY DEF Init, CommandInv, Distinct, Range
  <1>4. OneMid /\ \A o \in Operators : MidInv(o)
    BY <1>3 DEF OneMid, Mid, MidInv
  <1>5. QED
    BY <1>1, <1>2, <1>3, <1>4, TypeInit DEF UserListInv

\* The commands of other operators keep what they have in hand.
LEMMA OthersKeepTheirs ==
    ASSUME NEW q \in Operators, CommandInv(q), ever \subseteq ever',
           UNCHANGED <<pc[q], command[q], rows[q], seen[q]>>
    PROVE  CommandInv(q)'
  <1>1. Duplicate(q)' = Duplicate(q)
    BY DEF Duplicate, Lines
  <1>2. QED
    BY <1>1 DEF CommandInv

\* A command that has ended has nothing in hand.
LEMMA EndedHasNothing ==
    ASSUME TypeOK, NEW o \in Operators, Ends(o)
    PROVE  CommandInv(o)'
  <1>1. rows'[o] = <<>> /\ seen'[o] = <<>> /\ pc'[o] = "idle" /\ command'[o] = "none"
    BY DEF Ends, TypeOK
  <1>2. QED
    BY <1>1 DEF CommandInv, Distinct, Range

LEMMA OneOperatorMoves ==
    ASSUME TypeOK, NEW o \in Operators, Command(o), NEW q \in Operators, q # o
    PROVE  UNCHANGED <<pc[q], command[q], rows[q], seen[q]>>
  BY DEF TypeOK, Command, Begins, Fetches, FetchFails, Reads, NothingToDo, Declines,
      OpensNew, Creates, Inserts, Overwrites, Deletes, Reports, Tears, Interrupted,
      Ends, commandVars

LEMMA CommandsLeaveTheTable ==
    ASSUME NEW o \in Operators, Command(o)
    PROVE  UNCHANGED <<cred, ever>>
  BY DEF Command, Begins, Fetches, FetchFails, Reads, NothingToDo, Declines,
      OpensNew, Creates, Inserts, Overwrites, Deletes, Reports, Tears, Interrupted,
      Ends, dbVars

\* What a command does to the list: it leaves it alone and is neither before
\* nor after between two system calls, it writes, or it tears the list.
LEMMA WhatCommandsDo ==
    ASSUME TypeOK, NEW o \in Operators, Command(o)
    PROVE  /\ ~torn
           /\ \/ UNCHANGED fileVars /\ ~Mid(o) /\ ~Mid(o)'
              \/ OpensNew(o) \/ Creates(o) \/ Inserts(o) \/ Overwrites(o) \/ Deletes(o)
              \/ torn'
  <1>1. CASE \E c \in Commands, U \in SUBSET Users : Begins(o, c, U)
    BY <1>1 DEF Command, Begins, Mid, TypeOK
  <1>2. CASE Fetches(o) \/ Reads(o)
    BY <1>2 DEF Command, Fetches, Reads, Mid, TypeOK
  <1>3. CASE FetchFails(o) \/ NothingToDo(o) \/ Declines(o) \/ Reports(o)
    BY <1>3 DEF Command, FetchFails, NothingToDo, Declines, Reports, Ends, Mid, TypeOK
  <1>4. CASE Tears(o) \/ Interrupted(o)
    BY <1>4 DEF Command, Tears, Interrupted
  <1>5. QED
    BY <1>1, <1>2, <1>3, <1>4 DEF Command

\* A list that nobody writes still is what it was.
LEMMA FileKept ==
    ASSUME FileInv, ever \subseteq ever',
           UNCHANGED <<file, kept, doubtful, raced, torn>>, Settled' => Settled
    PROVE  FileInv'
  BY DEF FileInv, EveryLineWasTrue, ListAddsUp, AddsUp

\* ... and so is what a command has begun to write.
LEMMA MidKept ==
    ASSUME NEW q \in Operators, MidInv(q),
           UNCHANGED <<pc[q], rows[q], seen[q], file, kept, doubtful, raced, torn>>
    PROVE  MidInv(q)'
  <1>1. Remaining(q)' = Remaining(q)
    BY DEF Remaining, Targets, Ascending, Matches
  <1>2. QED
    BY <1>1 DEF MidInv, AddsUp

\* Who is alone with the list finds it settled.
LEMMA AloneIsSettled ==
    ASSUME NEW o \in Operators, ~torn, Whole(o), ~Mid(o)
    PROVE  Settled
  BY DEF Whole, Settled

LEMMA OpensNewKeepsFile ==
    ASSUME UserListInv, NEW o \in Operators, OpensNew(o)
    PROVE  FileInv' /\ MidInv(o)'
  <1>1. pc'[o] = "emptied" /\ kept' = Range(rows[o]) /\ UNCHANGED rows
    BY DEF OpensNew, UserListInv, TypeOK
  <1>2. ~Settled'
    BY <1>1 DEF Settled, Mid
  <1>3. QED
    BY <1>1, <1>2 DEF FileInv, EveryLineWasTrue, ListAddsUp, MidInv

LEMMA CreatesKeepsFile ==
    ASSUME UserListInv, NEW o \in Operators, Creates(o), ~torn
    PROVE  FileInv'
  <1>1. /\ file' = rows[o] /\ pc[o] = "emptied"
        /\ UNCHANGED <<kept, doubtful, ever>>
    BY DEF Creates, Ends, dbVars
  <1>2. CommandInv(o) /\ MidInv(o)
    BY DEF UserListInv
  <1>3. /\ Range(rows[o]) \subseteq ever /\ Distinct(rows[o])
        /\ kept = Range(rows[o])
    BY <1>1, <1>2 DEF CommandInv, MidInv
  <1>4. EveryLineWasTrue'
    BY <1>1, <1>3 DEF EveryLineWasTrue
  <1>5. AddsUp(file)'
    BY <1>1, <1>3 DEF AddsUp, Distinct
  <1>6. QED
    BY <1>4, <1>5 DEF FileInv, ListAddsUp

\* Elements of a concatenation are those of its two parts.
LEMMA PlacesOfBoth ==
    ASSUME NEW S, NEW s \in Seq(S), NEW t \in Seq(S)
    PROVE  /\ DOMAIN s = 1 .. Len(s) /\ DOMAIN t = 1 .. Len(t)
           /\ DOMAIN (s \o t) = 1 .. Len(s) + Len(t)
           /\ Len(s) \in Nat /\ Len(t) \in Nat
           /\ \A i \in 1 .. Len(s) : (s \o t)[i] = s[i]
           /\ \A i \in 1 .. Len(t) : (s \o t)[Len(s) + i] = t[i]
  OBVIOUS

LEMMA RangeOfBoth ==
    ASSUME NEW S, NEW s \in Seq(S), NEW t \in Seq(S)
    PROVE  Range(s \o t) = Range(s) \cup Range(t)
  <1> DEFINE all == s \o t
  <1>1. /\ DOMAIN s = 1 .. Len(s) /\ DOMAIN t = 1 .. Len(t)
        /\ DOMAIN all = 1 .. Len(s) + Len(t)
        /\ Len(s) \in Nat /\ Len(t) \in Nat
        /\ \A i \in 1 .. Len(s) : all[i] = s[i]
        /\ \A i \in 1 .. Len(t) : all[Len(s) + i] = t[i]
    BY PlacesOfBoth
  <1> HIDE DEF all
  <1>2. ASSUME NEW i \in DOMAIN all PROVE all[i] \in Range(s) \cup Range(t)
    <2>1. CASE i <= Len(s)
      BY <1>1, <2>1 DEF Range
    <2>2. CASE i > Len(s)
      <3>1. PICK j \in 1 .. Len(t) : i = Len(s) + j
        <4>1. i - Len(s) \in 1 .. Len(t) /\ i = Len(s) + (i - Len(s))
          BY <1>1, <2>2
        <4>2. QED
          BY <4>1
      <3>2. QED
        BY <1>1, <3>1 DEF Range
    <2>3. QED
      BY <1>1, <2>1, <2>2
  <1>3. ASSUME NEW j \in 1 .. Len(s) PROVE s[j] \in Range(all)
    <2>1. j \in DOMAIN all
      BY <1>1
    <2>2. QED
      BY <1>1, <2>1 DEF Range
  <1>4. ASSUME NEW j \in 1 .. Len(t) PROVE t[j] \in Range(all)
    <2>1. Len(s) + j \in DOMAIN all
      BY <1>1
    <2>2. QED
      BY <1>1, <2>1 DEF Range
  <1>5. Range(all) = Range(s) \cup Range(t)
    BY <1>1, <1>2, <1>3, <1>4 DEF Range
  <1>6. QED
    BY <1>5 DEF all

LEMMA InsertsKeepsFile ==
    ASSUME UserListInv, NEW o \in Operators, Inserts(o), ~torn
    PROVE  FileInv'
  <1> PICK new : new = Lines(rows[o])
    OBVIOUS
  <1>1. /\ file' = file \o new /\ kept' = kept \cup Range(rows[o])
        /\ pc[o] = "write" /\ command[o] = "insert" /\ Whole(o)
        /\ raced' = (raced \/ file # seen[o])
    BY DEF Inserts, Writes
  <1>2. UNCHANGED <<ever, doubtful>> /\ CommandInv(o) /\ FileInv /\ TypeOK
    BY DEF Inserts, Ends, dbVars, UserListInv
  <1>3. new \in Seq(Creds) /\ file \in Seq(Creds) /\ rows[o] \in Seq(Creds)
    BY <1>2, LinesOfRows DEF TypeOK
  <1>4. /\ Range(new) \subseteq ever \cup {Blank} /\ Distinct(new)
        /\ Range(rows[o]) \subseteq Range(new)
        /\ Range(new) \subseteq Range(rows[o]) \cup {Blank}
    BY <1>1, <1>2 DEF CommandInv, Lines, Range, Distinct
  <1>5. Settled
    BY <1>1, AloneIsSettled DEF Mid
  <1>6. Range(file \o new) = Range(file) \cup Range(new)
    BY <1>3, RangeOfBoth
  <1>7. EveryLineWasTrue'
    BY <1>1, <1>2, <1>4, <1>5, <1>6 DEF FileInv, EveryLineWasTrue
  <1>8. ASSUME ~raced' PROVE AddsUp(file)'
    <2>1. ~raced /\ file = seen[o]
      BY <1>1, <1>8
    <2>2. Range(file) \cap (Range(new) \cup {Blank}) = {}
      BY <1>1, <1>2, <2>1 DEF CommandInv, Duplicate
    <2>3. AddsUp(file)
      BY <1>2, <1>5, <2>1 DEF FileInv, ListAddsUp
    <2>4. /\ kept' \subseteq Range(file \o new)
          /\ Range(file \o new) \ {Blank} \subseteq kept' \cup doubtful
      BY <1>1, <1>4, <1>6, <2>3 DEF AddsUp
    <2>5. \A i \in DOMAIN (file \o new) :
              \/ i \in DOMAIN file /\ (file \o new)[i] = file[i]
              \/ /\ i - Len(file) \in DOMAIN new
                 /\ (file \o new)[i] = new[i - Len(file)]
      BY <1>3
    <2>6. ASSUME NEW i \in DOMAIN (file \o new), NEW j \in DOMAIN (file \o new), i # j
          PROVE  (file \o new)[i] = (file \o new)[j] => (file \o new)[i] = Blank
      <3>1. i \in Int /\ j \in Int /\ Len(file) \in Int
        BY <1>3
      <3>2. \A a \in DOMAIN file, b \in DOMAIN new : file[a] # new[b]
        BY <2>2 DEF Range
      <3>3. i - Len(file) # j - Len(file)
        BY <2>6, <3>1
      <3>4. \A a, b \in DOMAIN file : a # b /\ file[a] = file[b] => file[a] = Blank
        BY <2>3 DEF AddsUp
      <3>5. QED
        BY <1>4, <2>5, <2>6, <3>2, <3>3, <3>4 DEF Distinct
    <2>7. QED
      BY <1>1, <1>2, <2>4, <2>6 DEF AddsUp, Blank
  <1>9. QED
    BY <1>7, <1>8 DEF FileInv, ListAddsUp

\* The set that a deletion looks up in: of the logins of its users it holds the
\* first one only.
LEMMA TargetsAreOneLogin ==
    ASSUME TypeOK, NEW o \in Operators, rows[o] # <<>>, Len(rows[o]) <= 3,
           NEW line \in Creds
    PROVE  Matches(line, Targets(o)) <=>
               line.login # None /\ line.login = rows[o][1].login
  <1> PICK rs : rs = rows[o]
    OBVIOUS
  <1>1. rs \in Seq(Creds) /\ Len(rs) \in 1 .. 3 /\ DOMAIN rs = 1 .. Len(rs)
    <2>1. rs \in Seq(Creds) /\ rs # <<>> /\ Len(rs) <= 3
      BY DEF TypeOK
    <2>2. Len(rs) \in Nat /\ Len(rs) # 0
      BY <2>1
    <2>3. Len(rs) \in 1 .. 3
      <3>1. PICK n : n = Len(rs)
        OBVIOUS
      <3>2. n \in Nat /\ n # 0 /\ n <= 3
        BY <2>1, <2>2, <3>1
      <3>3. n \in 1 .. 3
        BY <3>2
      <3>4. QED
        BY <3>1, <3>3
    <2>4. QED
      BY <2>1, <2>3
  <1>2. Targets(o) = {Columns(rs[i])[i] : i \in 1 .. Len(rs)}
    BY <1>1 DEF Targets
  <1>3. \A i \in 1 .. Len(rs) : rs[i] \in Creds
    BY <1>1
  <1>4. /\ line.login \in Logins
        /\ \A i \in 1 .. Len(rs) : rs[i].login \in Logins /\ rs[i].hash \in Hashes
    BY <1>3 DEF Creds
  <1>5. ASSUME NEW i \in 1 .. Len(rs), line.login # None, Columns(rs[i])[i] = line.login
        PROVE  i = 1
    <2>1. i \in {1, 2, 3}
      BY <1>1
    <2>2. CASE i = 2
      <3>1. Columns(rs[i])[i] = rs[i].hash
        BY <2>2 DEF Columns
      <3>2. QED
        BY <1>4, <1>5, <3>1 DEF Logins, Hashes, Login, Hash
    <2>3. CASE i = 3
      <3>1. Columns(rs[i])[i] \in {None, <<"type">>}
        BY <2>3 DEF Columns
      <3>2. line.login # <<"type">>
        BY <1>4, <1>5 DEF Logins, Login
      <3>3. QED
        BY <1>5, <3>1, <3>2
    <2>4. QED
      BY <2>1, <2>2, <2>3
  <1>6. 1 \in 1 .. Len(rs) /\ Columns(rs[1])[1] = rs[1].login
    BY <1>1 DEF Columns
  <1>7. QED
    BY <1>2, <1>5, <1>6 DEF Matches

\* A deletion with nobody in between takes away lines that were named only,
\* and among them all of its first user.
LEMMA RemainingAddsUp ==
    ASSUME UserListInv, NEW o \in Operators, Overwrites(o), ~torn, ~raced'
    PROVE  AddsUp(Remaining(o))'
  <1>1. /\ kept' = kept \ Named(o, kept)
        /\ doubtful' = (doubtful \cup Named(o, kept)) \ NamedFirst(o, doubtful \cup kept)
        /\ pc[o] = "write" /\ command[o] = "delete" /\ Whole(o)
        /\ raced' = (raced \/ file # seen[o])
    BY DEF Overwrites, Writes
  <1>2. UNCHANGED <<rows, seen>> /\ CommandInv(o) /\ FileInv /\ TypeOK
    BY DEF Overwrites, UserListInv
  <1>3. rows[o] # <<>> /\ Len(rows[o]) <= 3 /\ rows[o] \in Seq(Creds)
    BY <1>1, <1>2 DEF CommandInv, TypeOK
  <1>4. Settled
    BY <1>1, AloneIsSettled DEF Mid
  <1>5. ~raced /\ file = seen[o] /\ AddsUp(file)
    BY <1>1, <1>2, <1>4 DEF FileInv, ListAddsUp
  <1>6. Remaining(o)' = Remaining(o)
    BY <1>2 DEF Remaining, Targets, Ascending, Matches
  <1>7. Range(file) \subseteq Creds
    BY <1>2 DEF TypeOK, Range
  <1>8. \A line \in Range(file) : Matches(line, Targets(o)) <=>
                                      line.login # None /\ line.login = rows[o][1].login
    BY <1>2, <1>3, <1>7, TargetsAreOneLogin
  <1>9. Range(Remaining(o)) = {line \in Range(file) : ~Matches(line, Targets(o))}
    BY <1>2, <1>5, LinesLeft
  <1>10. 1 \in DOMAIN rows[o]
    BY <1>3
  <1>11. kept' \subseteq Range(Remaining(o))
    BY <1>1, <1>5, <1>8, <1>9, <1>10 DEF AddsUp, Named
  <1>12. Range(Remaining(o)) \ {Blank} \subseteq kept' \cup doubtful'
    BY <1>1, <1>5, <1>8, <1>9 DEF AddsUp, NamedFirst
  <1>13. OnceEach(seen[o])
    BY <1>5 DEF AddsUp, OnceEach
  <1>14. OnceEach(Remaining(o))
    BY <1>2, <1>13, LinesLeft
  <1>15. QED
    BY <1>6, <1>11, <1>12, <1>14 DEF AddsUp, OnceEach, Blank

LEMMA OverwritesKeepsFile ==
    ASSUME UserListInv, NEW o \in Operators, Overwrites(o), ~torn
    PROVE  FileInv' /\ MidInv(o)'
  <1>1. /\ file' = Remaining(o) \o SubSeq(file, Len(Remaining(o)) + 1, Len(file))
        /\ UNCHANGED <<rows, seen>>
    BY DEF Overwrites, Writes
  <1>2. TypeOK
    BY DEF UserListInv
  <1>3. pc'[o] = "overwritten"
    BY <1>2 DEF Overwrites, TypeOK
  <1>4. ~Settled'
    BY <1>3 DEF Settled, Mid
  <1>5. Remaining(o)' = Remaining(o)
    <2>1. UNCHANGED <<rows, seen>>
      BY <1>1
    <2>2. QED
      BY <2>1 DEF Remaining, Targets, Ascending, Matches
  <1>6. Remaining(o) \in Seq(Creds) /\ file \in Seq(Creds)
    BY <1>2, LinesLeft DEF TypeOK
  <1>7. /\ Len(Remaining(o)) <= Len(file')
        /\ SubSeq(file', 1, Len(Remaining(o))) = Remaining(o)
    BY <1>1, <1>6, WrittenFirst
  <1>8. ~raced' => AddsUp(Remaining(o))'
    BY RemainingAddsUp
  <1>9. MidInv(o)'
    BY <1>3, <1>5, <1>7, <1>8 DEF MidInv
  <1>10. QED
    BY <1>4, <1>9 DEF FileInv, EveryLineWasTrue, ListAddsUp

LEMMA DeletesKeepsFile ==
    ASSUME UserListInv, NEW o \in Operators, Deletes(o), ~torn
    PROVE  FileInv'
  <1>1. /\ file' = SubSeq(file, 1, Len(Remaining(o))) /\ pc[o] = "overwritten"
        /\ UNCHANGED <<kept, doubtful, raced, ever>>
    BY DEF Deletes, dbVars
  <1>2. CommandInv(o) /\ MidInv(o) /\ TypeOK
    BY DEF UserListInv
  <1>3. file' = Remaining(o) /\ (~raced => AddsUp(Remaining(o)))
    BY <1>1, <1>2 DEF MidInv
  <1>4. Range(Remaining(o)) \subseteq ever \cup {Blank}
    BY <1>2, LinesLeft DEF CommandInv
  <1>5. EveryLineWasTrue'
    BY <1>1, <1>3, <1>4 DEF EveryLineWasTrue, Blank
  <1>6. ~raced' => AddsUp(file)'
    BY <1>1, <1>3 DEF AddsUp, Blank
  <1>7. QED
    BY <1>5, <1>6 DEF FileInv, ListAddsUp

LEMMA CommandsKeepTheirs ==
    ASSUME UserListInv, NEW o \in Operators, Command(o)
    PROVE  CommandInv(o)'
  <1>1. TypeOK /\ CredInv /\ CommandInv(o) /\ EveryLineWasTrue /\ ~torn
    BY DEF UserListInv, FileInv, Command
  <1>2. UNCHANGED ever
    BY CommandsLeaveTheTable
  <1>3. CASE \E c \in Commands, U \in SUBSET Users : Begins(o, c, U)
    <2>1. UNCHANGED <<rows, seen>> /\ pc'[o] = "fetch" /\ pc[o] = "idle"
      BY <1>1, <1>3 DEF Begins, TypeOK
    <2>2. rows'[o] = <<>> /\ seen'[o] = seen[o]
      BY <1>1, <2>1 DEF CommandInv
    <2>3. QED
      BY <1>1, <1>2, <2>1, <2>2 DEF CommandInv, Distinct, Range
  <1>4. CASE Fetches(o)
    <2>1. PICK found : found = Found(asked[o])
      OBVIOUS
    <2>2. asked[o] \in SUBSET Users
      BY <1>1 DEF TypeOK
    <2>3. /\ Range(found) \subseteq ever
          /\ Blank \notin Range(found) => Distinct(found)
      BY <1>1, <2>1, <2>2, RowsOfUsers
    <2>4. /\ rows'[o] = found
          /\ UNCHANGED <<command, seen>>
          /\ pc'[o] = IF command[o] = "create" THEN "write" ELSE "read"
      BY <1>1, <1>4, <2>1 DEF Fetches, TypeOK, commandVars
    <2>5. /\ command[o] # "delete" => Blank \notin Range(found)
          /\ command[o] = "delete" => Len(found) <= Len(Columns(Blank))
      BY <1>4, <2>1, <2>2, <1>1, RowsOfUsers DEF Fetches, Refused, Columns
    <2>6. Len(Columns(Blank)) = 3
      BY DEF Columns
    <2>7. QED
      BY <1>1, <1>2, <2>3, <2>4, <2>5, <2>6 DEF CommandInv
  <1>5. CASE Reads(o)
    <2>1. /\ seen'[o] = file /\ pc'[o] = "write"
          /\ UNCHANGED <<command, rows>>
      BY <1>1, <1>5 DEF Reads, TypeOK, commandVars
    <2>2. Duplicate(o)' = Duplicate(o)
      BY <2>1 DEF Duplicate, Lines
    <2>3. command[o] = "delete" => rows[o] # <<>>
      <3>1. ASSUME command[o] = "delete", rows[o] = <<>> PROVE FALSE
        <4>1. Targets(o) = {}
          BY <3>1 DEF Targets
        <4>2. PICK line \in Range(file) : Matches(line, Targets(o))
          BY <1>5, <3>1 DEF Reads
        <4>3. QED
          BY <4>1, <4>2 DEF Matches
      <3>2. QED
        BY <3>1
    <2>4. command[o] = "insert" => Range(file) \cap Duplicate(o) = {}
      BY <1>5 DEF Reads
    <2>5. Settled
      BY <1>1, <1>5, AloneIsSettled DEF Reads, Mid
    <2>6. QED
      BY <1>1, <1>2, <2>1, <2>2, <2>3, <2>4, <2>5 DEF CommandInv, EveryLineWasTrue
  <1>6. CASE FetchFails(o) \/ NothingToDo(o) \/ Declines(o) \/ Reports(o)
             \/ Creates(o) \/ Inserts(o) \/ Interrupted(o)
    <2>1. Ends(o)
      BY <1>6 DEF FetchFails, NothingToDo, Declines, Reports, Creates, Inserts, Interrupted
    <2>2. QED
      BY <1>1, <2>1, EndedHasNothing
  <1>7. CASE OpensNew(o)
    <2>1. UNCHANGED <<rows, seen, command>> /\ pc'[o] = "emptied" /\ command[o] = "create"
      BY <1>1, <1>7 DEF OpensNew, Writes, TypeOK, commandVars
    <2>2. QED
      BY <1>1, <1>2, <2>1 DEF CommandInv
  <1>8. CASE Overwrites(o) \/ Deletes(o)
    <2>1. UNCHANGED <<rows, seen, command>> /\ pc'[o] \in {"overwritten", "deleted"}
      BY <1>1, <1>8 DEF Overwrites, Deletes, TypeOK, commandVars
    <2>2. QED
      BY <1>1, <1>2, <2>1 DEF CommandInv
  <1>9. CASE Tears(o)
    <2>1. UNCHANGED <<rows, seen, command, pc>>
      BY <1>9 DEF Tears, commandVars
    <2>2. QED
      BY <1>1, <1>2, <2>1, OthersKeepTheirs
  <1>10. QED
    BY <1>3, <1>4, <1>5, <1>6, <1>7, <1>8, <1>9 DEF Command

\* Between two system calls there is one command at most, and the others do not
\* disturb what it has begun.
LEMMA CommandsKeepMid ==
    ASSUME UserListInv, NEW o \in Operators, Command(o)
    PROVE  OneMid' /\ \A q \in Operators : MidInv(q)'
  <1>1. TypeOK /\ OneMid /\ ~torn /\ \A q \in Operators : MidInv(q)
    BY DEF UserListInv, Command
  <1>2. \A q \in Operators \ {o} : UNCHANGED <<pc[q], rows[q], seen[q]>>
    BY <1>1, OneOperatorMoves
  <1>3. CASE torn'
    BY <1>3 DEF OneMid, MidInv
  <1>4. CASE UNCHANGED fileVars /\ ~Mid(o)'
    <2>1. MidInv(o)'
      BY <1>4 DEF MidInv, Mid
    <2>2. \A q \in Operators \ {o} : MidInv(q)'
      BY <1>1, <1>2, <1>4, MidKept DEF fileVars
    <2>3. OneMid'
      BY <1>1, <1>2, <1>4 DEF OneMid, Mid, fileVars
    <2>4. QED
      BY <2>1, <2>2, <2>3
  <1>5. CASE OpensNew(o) \/ Overwrites(o) \/ Inserts(o)
    <2>1. Whole(o)
      BY <1>5 DEF OpensNew, Overwrites, Inserts, Writes
    <2>2. \A q \in Operators \ {o} : ~Mid(q) /\ ~Mid(q)'
      BY <1>2, <2>1 DEF Whole, Mid
    <2>3. \A q \in Operators \ {o} : MidInv(q)'
      BY <2>2 DEF MidInv, Mid
    <2>4. MidInv(o)'
      <3>1. CASE Inserts(o)
        BY <1>1, <3>1 DEF Inserts, Ends, MidInv, TypeOK
      <3>2. QED
        BY <1>1, <1>5, <3>1, OpensNewKeepsFile, OverwritesKeepsFile
    <2>5. QED
      BY <2>2, <2>3, <2>4 DEF OneMid
  <1>6. CASE Creates(o) \/ Deletes(o)
    <2>1. Mid(o) /\ pc'[o] \in {"idle", "deleted"}
      BY <1>1, <1>6 DEF Creates, Deletes, Ends, Mid, TypeOK
    <2>2. \A q \in Operators : ~Mid(q)'
      BY <1>1, <1>2, <2>1 DEF OneMid, Mid
    <2>3. QED
      BY <2>2 DEF OneMid, MidInv, Mid
  <1>7. QED
    BY <1>1, <1>3, <1>4, <1>5, <1>6, WhatCommandsDo

LEMMA CommandsKeepFile ==
    ASSUME UserListInv, NEW o \in Operators, Command(o)
    PROVE  FileInv'
  <1>1. TypeOK /\ FileInv /\ ~torn
    BY DEF UserListInv, Command
  <1>2. CASE torn'
    BY <1>2 DEF FileInv, EveryLineWasTrue, ListAddsUp, Settled
  <1>3. CASE UNCHANGED fileVars /\ ~Mid(o)
    <2>1. \A q \in Operators \ {o} : UNCHANGED pc[q]
      BY <1>1, OneOperatorMoves
    <2>2. Settled' => Settled
      BY <1>3, <2>1 DEF Settled, Mid, fileVars
    <2>3. UNCHANGED ever
      BY CommandsLeaveTheTable
    <2>4. QED
      BY <1>1, <1>3, <2>2, <2>3, FileKept DEF fileVars
  <1>4. QED
    BY <1>1, <1>2, <1>3, WhatCommandsDo, OpensNewKeepsFile, CreatesKeepsFile,
       InsertsKeepsFile, OverwritesKeepsFile, DeletesKeepsFile

LEMMA InvStep == UserListInv /\ [Next]_vars => UserListInv'
  <1> SUFFICES ASSUME UserListInv, [Next]_vars PROVE UserListInv'
    OBVIOUS
  <1>1. /\ TypeOK /\ CredInv /\ FileInv /\ OneMid
        /\ \A o \in Operators : CommandInv(o) /\ MidInv(o)
    BY DEF UserListInv
  <1>2. TypeOK'
    BY TypeStep
  <1>3. ASSUME ever \subseteq ever',
               UNCHANGED <<file, kept, doubtful, raced, torn, pc, command, rows, seen>>
        PROVE  /\ FileInv' /\ OneMid'
               /\ \A q \in Operators : CommandInv(q)' /\ MidInv(q)'
    <2>1. FileInv'
      BY <1>1, <1>3, FileKept DEF Settled, Mid
    <2>2. OneMid'
      BY <1>1, <1>3 DEF OneMid, Mid
    <2>3. QED
      BY <1>1, <1>3, <2>1, <2>2, OthersKeepTheirs, MidKept
  <1>4. ASSUME NEW u \in Users, CreatesUser(u) \/ UpdatesUser(u) \/ DeletesUser(u)
        PROVE  UserListInv'
    <2>1. PICK c \in CredsOf(u) \cup {None} : SetsCred(u, c)
      BY <1>1, <1>4, UserSteps
    <2>2. /\ cred' = [cred EXCEPT ![u] = c]
          /\ ever' = ever \cup ({c} \ {None})
          /\ UNCHANGED <<file, kept, doubtful, raced, torn, pc, command, rows, seen>>
      BY <2>1 DEF SetsCred, fileVars, commandVars
    <2>3. CredInv'
      BY <1>1, <2>1, <2>2 DEF CredInv, TypeOK, CredsOf
    <2>4. QED
      BY <1>2, <1>3, <2>2, <2>3 DEF UserListInv
  <1>5. ASSUME NEW o \in Operators, Command(o) PROVE UserListInv'
    <2>1. UNCHANGED <<cred, ever>>
      BY <1>5, CommandsLeaveTheTable
    <2>2. CredInv'
      BY <1>1, <2>1 DEF CredInv, CredsOf
    <2>3. FileInv' /\ OneMid' /\ \A q \in Operators : MidInv(q)'
      BY <1>5, CommandsKeepFile, CommandsKeepMid
    <2>4. ASSUME NEW q \in Operators PROVE CommandInv(q)'
      <3>1. CASE q = o
        BY <1>5, <3>1, CommandsKeepTheirs
      <3>2. CASE q # o
        BY <1>1, <1>5, <2>1, <3>2, OneOperatorMoves, OthersKeepTheirs
      <3>3. QED
        BY <3>1, <3>2
    <2>5. QED
      BY <1>2, <2>2, <2>3, <2>4 DEF UserListInv
  <1>6. CASE UNCHANGED vars
    <2>1. UNCHANGED <<cred, ever, file, kept, doubtful, raced, torn, pc, command, rows, seen>>
      BY <1>6 DEF vars, dbVars, fileVars, commandVars
    <2>2. CredInv'
      BY <1>1, <2>1 DEF CredInv, CredsOf
    <2>3. QED
      BY <1>2, <1>3, <2>1, <2>2 DEF UserListInv
  <1>7. QED
    BY <1>4, <1>5, <1>6 DEF Next

LEMMA UserListInvariant == Spec => []UserListInv
  BY InvInit, InvStep, PTL DEF Spec

(***************************************************************************)
(* The theorems.                                                           *)
(***************************************************************************)

\* The commands and the users' API keep everything in its type, whatever the
\* rows that the commands sort and the lines that they filter.
THEOREM UserListTypeCorrect == Spec => []TypeOK
  <1>1. UserListInv => TypeOK
    BY DEF UserListInv
  <1>2. QED
    BY <1>1, UserListInvariant, PTL

\* Commands may write over one another's work, and users may change between
\* what a command fetches and what it writes: unless a command meets or leaves
\* half a write, no line pairs a login with a password that its user did not
\* have with it at one time.
THEOREM LinesAreReal == Spec => []EveryLineWasTrue
  <1>1. UserListInv => EveryLineWasTrue
    BY DEF UserListInv, FileInv
  <1>2. QED
    BY <1>1, UserListInvariant, PTL

\* As long as no command writes over lines that it has not read, and none meets
\* or leaves half a write, the file holds every line that was inserted and that
\* nobody has named for deletion since, and besides only lines of users that
\* were named for deletion behind another one.
THEOREM ListIsTheSum == Spec => []ListAddsUp
  <1>1. UserListInv => ListAddsUp
    BY DEF UserListInv, FileInv
  <1>2. QED
    BY <1>1, UserListInvariant, PTL
=============================================================================
