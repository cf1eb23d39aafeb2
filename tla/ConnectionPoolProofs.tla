------------------------ MODULE ConnectionPoolProofs ------------------------
(***************************************************************************)
(* Theorems about ConnectionPool, for any number of workers and requests   *)
(* and any size of the pools.                                              *)
(***************************************************************************)
EXTENDS ConnectionPool, FiniteSetTheorems, TLAPS

(***************************************************************************)
(* The inductive invariant.                                                *)
(***************************************************************************)

Holders(w) == {r \in holds : at[r] = w}

\* Who has a connection is served by a worker, whose pool has lent it, and has
\* either an answer to await or its session to close.
HolderOK(r) ==
    /\ at[r] \in Workers
    /\ stage[r] \in {"awaiting", "returned", "closing"}
    /\ waiting[at[r]] # r

\* Each pool counts the sessions that have one of its connections.
Balanced == \A w \in Workers : out[w] = Cardinality(Holders(w))

\* A page that has not yet queried has not yet asked: its request does not
\* exist, so that asking disturbs nobody's connection.
NotYetAsked ==
    \A r \in Lists : stage[r] \in {"none", "queued", "opened"} => stage[Asks[r]] = "none"

IInv ==
    /\ PoolTypeOK
    /\ \A r \in holds : HolderOK(r)
    /\ Balanced
    /\ NotYetAsked

-----------------------------------------------------------------------------
(***************************************************************************)
(* Pools and the sets of holders.                                          *)
(***************************************************************************)

\* The requests that hold a connection are finitely many.
LEMMA HoldersFinite ==
    ASSUME PoolTypeOK, NEW w
    PROVE  IsFiniteSet(Holders(w)) /\ Cardinality(Holders(w)) \in Nat
  <1>1. Holders(w) \subseteq Requests
    BY DEF PoolTypeOK, Holders
  <1> QED
    BY <1>1, RequestsAssumption, FS_Subset, FS_CardinalityType

\* A step that changes neither connections nor workers of holders leaves the
\* pools balanced.
LEMMA SameHolders ==
    ASSUME Balanced, UNCHANGED <<holds, out>>, \A r \in holds : at'[r] = at[r]
    PROVE  Balanced'
  <1>1. \A w \in Workers : Holders(w)' = Holders(w)
    BY DEF Holders
  <1> QED
    BY <1>1 DEF Balanced

\* A pool lends a connection to a request that had none.
LEMMA LendingBalances ==
    ASSUME PoolTypeOK, Balanced, UNCHANGED at,
           NEW r \in Requests, r \notin holds, at[r] \in Workers,
           holds' = holds \cup {r},
           out' = [out EXCEPT ![at[r]] = @ + 1]
    PROVE  Balanced'
  <1> SUFFICES ASSUME NEW w \in Workers PROVE out'[w] = Cardinality(Holders(w)')
    BY DEF Balanced
  <1>1. out[w] = Cardinality(Holders(w)) /\ out \in [Workers -> 0 .. PoolSize]
    BY DEF Balanced, PoolTypeOK
  <1>2. CASE w = at[r]
    <2>1. Holders(w)' = Holders(w) \cup {r} /\ r \notin Holders(w)
      BY <1>2 DEF Holders
    <2>2. Cardinality(Holders(w) \cup {r}) = Cardinality(Holders(w)) + 1
      BY <2>1, HoldersFinite, FS_AddElement
    <2> QED
      BY <1>1, <1>2, <2>1, <2>2
  <1>3. CASE w # at[r]
    <2>1. Holders(w)' = Holders(w)
      BY <1>3 DEF Holders
    <2> QED
      BY <1>1, <1>3, <2>1
  <1> QED
    BY <1>2, <1>3

\* A session that is closed gives back what it holds, to the pool it is from.
LEMMA GivingBackBalances ==
    ASSUME PoolTypeOK, Balanced, UNCHANGED at, NEW r \in Requests,
           r \in holds => at[r] \in Workers, GivesBack(r)
    PROVE  Balanced' /\ out' \in [Workers -> 0 .. PoolSize]
  <1>1. CASE r \notin holds
    <2>1. holds' = holds /\ out' = out
      BY <1>1 DEF GivesBack
    <2> QED
      BY <2>1, SameHolders DEF PoolTypeOK
  <1>2. CASE r \in holds
    <2>1. /\ holds' = holds \ {r} /\ out' = [out EXCEPT ![at[r]] = @ - 1]
          /\ out \in [Workers -> 0 .. PoolSize] /\ at[r] \in Workers
      BY <1>2 DEF GivesBack, PoolTypeOK
    <2>2. ASSUME NEW w \in Workers
          PROVE  out'[w] = Cardinality(Holders(w)') /\ out'[w] \in 0 .. PoolSize
      <3>1. out[w] = Cardinality(Holders(w)) /\ out[w] \in 0 .. PoolSize
        BY <2>1 DEF Balanced
      <3>2. CASE w = at[r]
        <4>1. Holders(w)' = Holders(w) \ {r} /\ r \in Holders(w)
          BY <1>2, <2>1, <3>2 DEF Holders
        <4>2. Cardinality(Holders(w) \ {r}) = Cardinality(Holders(w)) - 1
          BY <4>1, HoldersFinite, FS_RemoveElement
        <4>3. Cardinality(Holders(w) \ {r}) \in Nat
          BY <4>1, HoldersFinite, FS_RemoveElement, FS_CardinalityType
        <4> QED
          BY <2>1, <3>1, <3>2, <4>1, <4>2, <4>3, PoolAssumption
      <3>3. CASE w # at[r]
        <4>1. Holders(w)' = Holders(w)
          BY <2>1, <3>3 DEF Holders
        <4> QED
          BY <2>1, <3>1, <3>3, <4>1
      <3> QED
        BY <3>2, <3>3
    <2>3. out' \in [Workers -> 0 .. PoolSize]
      BY <2>1, <2>2
    <2> QED
      BY <2>2, <2>3 DEF Balanced
  <1> QED
    BY <1>1, <1>2

-----------------------------------------------------------------------------
(***************************************************************************)
(* The steps.                                                              *)
(***************************************************************************)

\* Asking this application: the request of the page is nobody else's, is not
\* the page itself, and is of another kind.
LEMMA AskedApart ==
    ASSUME NEW r \in Lists
    PROVE  /\ Asks[r] \in Requests /\ Asks[r] # r
           /\ Asks[r] \in Asked /\ Asks[r] \notin Lists
           /\ \A q \in Lists : Asks[q] = Asks[r] => q = r
  BY AsksAssumption, KindAssumption DEF Lists, Asked

LEMMA IInit == Init => IInv
  <1> SUFFICES ASSUME Init PROVE IInv
    OBVIOUS
  <1>1. PoolTypeOK
    BY PoolAssumption DEF Init, PoolTypeOK, Stages
  <1>2. \A w \in Workers : Holders(w) = {} /\ out[w] = 0
    BY DEF Init, Holders
  <1>3. Balanced
    BY <1>2, FS_EmptySet DEF Balanced
  <1>4. NotYetAsked
    BY AskedApart DEF Init, NotYetAsked
  <1> QED
    BY <1>1, <1>3, <1>4 DEF Init, IInv

\* A request that makes its first query gets a connection and goes on.
LEMMA TakingKeeps ==
    ASSUME IInv, NEW r \in Requests, at[r] \in Workers,
           TakesConnection(r), UNCHANGED at,
           waiting'[at[r]] # r,
           waiting' \in [Workers -> Requests \cup {Nobody}],
           \A w \in Workers : waiting'[w] \in {waiting[w], Nobody}
    PROVE  IInv'
  <1> USE DEF IInv
  <1>1. stage[r] = "opened"
    BY DEF TakesConnection, Proceeds, Move
  <1>2. r \notin holds
    BY <1>1 DEF HolderOK
  <1>3. /\ out[at[r]] < PoolSize /\ out' = [out EXCEPT ![at[r]] = @ + 1]
        /\ holds' = holds \cup {r}
    BY DEF TakesConnection
  <1>4. /\ stage' \in [Requests -> Stages]
        /\ stage'[r] \in {"awaiting", "returned", "closing"}
        /\ \A q \in Requests \ {r} :
              \/ stage'[q] = stage[q]
              \/ r \in Lists /\ q = Asks[r] /\ stage[q] = "none"
    <2>1. CASE Move(r, "opened", "returned") \/ Move(r, "opened", "awaiting")
      BY <2>1 DEF Move, PoolTypeOK, Stages
    <2>2. CASE r \in Lists
               /\ stage' = [stage EXCEPT ![r] = "awaiting", ![Asks[r]] = "queued"]
      <3>1. stage[Asks[r]] = "none" /\ Asks[r] \in Requests /\ Asks[r] # r
        BY <1>1, <2>2, AskedApart DEF NotYetAsked
      <3> QED
        BY <2>2, <3>1 DEF PoolTypeOK, Stages
    <2> QED
      BY <2>1, <2>2 DEF TakesConnection, Proceeds
  <1>5. PoolTypeOK'
    <2>1. out' \in [Workers -> 0 .. PoolSize]
      BY <1>3, PoolAssumption DEF PoolTypeOK
    <2> QED
      BY <1>3, <1>4, <2>1 DEF PoolTypeOK
  <1>6. \A q \in holds' : HolderOK(q)'
    <2>1. HolderOK(r)'
      BY <1>4 DEF HolderOK
    <2>2. ASSUME NEW q \in holds, q # r PROVE HolderOK(q)'
      <3>1. HolderOK(q) /\ q \in Requests /\ q # Nobody
        BY NobodyAssumption DEF PoolTypeOK
      <3>2. stage'[q] = stage[q]
        BY <1>4, <2>2, <3>1 DEF HolderOK
      <3> QED
        BY <3>1, <3>2 DEF HolderOK
    <2> QED
      BY <1>3, <2>1, <2>2
  <1>7. Balanced'
    BY <1>2, <1>3, LendingBalances
  <1>8. NotYetAsked'
    <2> SUFFICES ASSUME NEW q \in Lists, stage'[q] \in {"none", "queued", "opened"}
                 PROVE  stage'[Asks[q]] = "none"
      BY DEF NotYetAsked
    <2>1. q # r /\ q \in Requests
      BY <1>4 DEF Lists
    <2>2. stage'[q] = stage[q]
      BY <1>4, <2>1, AskedApart
    <2>3. stage[Asks[q]] = "none"
      BY <2>2 DEF NotYetAsked
    <2>4. Asks[q] # r /\ Asks[q] \in Requests
      BY <1>1, <2>3, AskedApart
    <2>5. ~(r \in Lists /\ Asks[q] = Asks[r])
      BY <2>1, AskedApart
    <2> QED
      BY <1>4, <2>3, <2>4, <2>5
  <1> QED
    BY <1>5, <1>6, <1>7, <1>8

\* A step of r that lends nothing: r goes to another stage, and keeps a
\* connection only if it is to close its session.
LEMMA MovingKeeps ==
    ASSUME IInv, NEW r \in Requests, NEW s \in Stages \ {"none", "queued", "opened"},
           stage[r] # "none",
           stage' = [stage EXCEPT ![r] = s],
           UNCHANGED at,
           \/ UNCHANGED <<holds, out>>
           \/ GivesBack(r),
           r \in holds' => s \in {"returned", "closing"},
           waiting' \in [Workers -> Requests \cup {Nobody}],
           \A w \in Workers : waiting'[w] \in {waiting[w], Nobody}
    PROVE  IInv'
  <1> USE DEF IInv
  <1>1. holds' \subseteq holds
    BY DEF GivesBack
  <1>2. r \in holds => at[r] \in Workers
    BY DEF HolderOK
  <1>3. Balanced' /\ out' \in [Workers -> 0 .. PoolSize]
    <2>1. CASE UNCHANGED <<holds, out>>
      BY <2>1, SameHolders DEF PoolTypeOK
    <2>2. CASE GivesBack(r)
      BY <1>2, <2>2, GivingBackBalances
    <2> QED
      BY <2>1, <2>2
  <1>4. PoolTypeOK'
    BY <1>1, <1>3 DEF PoolTypeOK
  <1>5. \A q \in holds' : HolderOK(q)'
    <2> SUFFICES ASSUME NEW q \in holds' PROVE HolderOK(q)'
      OBVIOUS
    <2>1. HolderOK(q) /\ q \in Requests /\ q # Nobody
      BY <1>1, NobodyAssumption DEF PoolTypeOK
    <2>2. stage'[q] \in {"awaiting", "returned", "closing"}
      BY <2>1 DEF HolderOK, PoolTypeOK
    <2> QED
      BY <2>1, <2>2 DEF HolderOK
  <1>6. NotYetAsked'
    <2> SUFFICES ASSUME NEW q \in Lists, stage'[q] \in {"none", "queued", "opened"}
                 PROVE  stage'[Asks[q]] = "none"
      BY DEF NotYetAsked
    <2>1. q # r /\ stage'[q] = stage[q]
      BY DEF PoolTypeOK, Lists
    <2>2. stage[Asks[q]] = "none" /\ Asks[q] \in Requests
      BY <2>1, AskedApart DEF NotYetAsked
    <2> QED
      BY <2>2 DEF PoolTypeOK
  <1> QED
    BY <1>3, <1>4, <1>5, <1>6

LEMMA IStep == IInv /\ [Next]_vars => IInv'
  <1> SUFFICES ASSUME IInv, [Next]_vars PROVE IInv'
    OBVIOUS
  <1> USE DEF IInv
  <1>0. \A r \in holds : r \in Requests /\ HolderOK(r) /\ r # Nobody
    BY NobodyAssumption DEF PoolTypeOK
  <1>1. ASSUME NEW r \in Requests, NEW w \in Workers, Opens(r, w) PROVE IInv'
    <2>1. /\ stage[r] \in {"none", "queued"} /\ stage' = [stage EXCEPT ![r] = "opened"]
          /\ at' = [at EXCEPT ![r] = w]
          /\ UNCHANGED <<holds, out, waiting>>
      BY <1>1 DEF Opens, Move
    <2>2. r \notin holds
      BY <2>1 DEF HolderOK
    <2>3. PoolTypeOK'
      BY <2>1 DEF PoolTypeOK, Stages
    <2>4. \A q \in holds' : q # r /\ at'[q] = at[q] /\ stage'[q] = stage[q]
      BY <2>1, <2>2 DEF PoolTypeOK
    <2>5. \A q \in holds' : HolderOK(q)'
      BY <2>1, <2>4 DEF HolderOK
    <2>6. Balanced'
      BY <2>1, <2>4, SameHolders
    <2>7. NotYetAsked'
      <3> SUFFICES ASSUME NEW q \in Lists, stage'[q] \in {"none", "queued", "opened"}
                   PROVE  stage'[Asks[q]] = "none"
        BY DEF NotYetAsked
      <3>1. Asks[q] \in Requests /\ Asks[q] \in Asked /\ q \in Requests
        BY AskedApart DEF Lists
      <3>2. stage[q] \in {"none", "queued", "opened"}
        BY <2>1, <3>1 DEF PoolTypeOK
      <3>3. stage[Asks[q]] = "none"
        BY <3>2 DEF NotYetAsked
      <3>4. Asks[q] # r
        BY <1>1, <3>1, <3>3 DEF Opens, Move
      <3> QED
        BY <2>1, <3>3, <3>4 DEF PoolTypeOK
    <2> QED
      BY <2>3, <2>5, <2>6, <2>7
  <1>2. ASSUME NEW r \in Requests, Queries(r) PROVE IInv'
    <2>1. at[r] \in Workers /\ waiting[at[r]] = Nobody /\ UNCHANGED at
      BY <1>2 DEF Queries, Runs
    <2>2. CASE TakesConnection(r) /\ UNCHANGED waiting
      <3>1. waiting'[at[r]] # r /\ waiting' \in [Workers -> Requests \cup {Nobody}]
        BY <2>1, <2>2, NobodyAssumption DEF PoolTypeOK
      <3> QED
        BY <2>1, <2>2, <3>1, TakingKeeps
    <2>3. CASE /\ stage[r] = "opened"
               /\ waiting' = [waiting EXCEPT ![at[r]] = r]
               /\ UNCHANGED <<stage, holds, out>>
      <3>1. r \notin holds
        BY <2>3 DEF HolderOK
      <3>2. PoolTypeOK'
        BY <2>1, <2>3 DEF PoolTypeOK
      <3>3. \A q \in holds' : HolderOK(q)'
        BY <2>1, <2>3, <3>1 DEF HolderOK, PoolTypeOK
      <3>4. Balanced'
        BY <2>1, <2>3, SameHolders
      <3> QED
        BY <2>3, <3>2, <3>3, <3>4 DEF NotYetAsked
    <2> QED
      BY <1>2, <2>2, <2>3 DEF Queries
  <1>3. ASSUME NEW r \in Requests, GetsConnection(r) PROVE IInv'
    <2>1. /\ at[r] \in Workers /\ TakesConnection(r) /\ UNCHANGED at
          /\ waiting' = [waiting EXCEPT ![at[r]] = Nobody]
      BY <1>3 DEF GetsConnection
    <2>2. /\ waiting'[at[r]] # r /\ waiting' \in [Workers -> Requests \cup {Nobody}]
          /\ \A w \in Workers : waiting'[w] \in {waiting[w], Nobody}
      BY <2>1, NobodyAssumption DEF PoolTypeOK
    <2> QED
      BY <2>1, <2>2, TakingKeeps
  <1>4. ASSUME NEW r \in Requests, NeverQueries(r) \/ TimesOut(r) PROVE IInv'
    <2>1. /\ stage[r] = "opened" /\ stage' = [stage EXCEPT ![r] = "returned"]
          /\ UNCHANGED <<at, holds, out>>
          /\ \A w \in Workers : waiting'[w] \in {waiting[w], Nobody}
          /\ waiting' \in [Workers -> Requests \cup {Nobody}]
      BY <1>4 DEF NeverQueries, TimesOut, Move, PoolTypeOK
    <2> QED
      BY <2>1, MovingKeeps DEF Stages
  <1>5. ASSUME NEW r \in Requests, IsAnswered(r) \/ AskFails(r) PROVE IInv'
    <2>1. /\ stage[r] = "awaiting" /\ stage' = [stage EXCEPT ![r] = "returned"]
          /\ UNCHANGED <<at, holds, out, waiting>>
      BY <1>5 DEF IsAnswered, AskFails, Move
    <2> QED
      BY <2>1, MovingKeeps DEF Stages, PoolTypeOK
  <1>6. ASSUME NEW r \in Requests, ServerAnswers(r) PROVE IInv'
    <2>1. /\ stage[r] = "awaiting" /\ stage' = [stage EXCEPT ![r] = "returned"]
          /\ UNCHANGED <<at, waiting>>
          /\ GivesBack(r) \/ UNCHANGED <<holds, out>>
      BY <1>6 DEF ServerAnswers, Move
    <2> QED
      BY <2>1, MovingKeeps DEF Stages, PoolTypeOK
  <1>7. ASSUME NEW r \in Requests, Closes(r) PROVE IInv'
    <2>1. /\ stage[r] = "closing" /\ stage' = [stage EXCEPT ![r] = "closed"]
          /\ UNCHANGED <<at, waiting>>
          /\ GivesBack(r) /\ r \notin holds'
      BY <1>7 DEF Closes, Move, GivesBack
    <2> QED
      BY <2>1, MovingKeeps DEF Stages, PoolTypeOK
  <1>8. ASSUME NEW r \in Requests, Responds(r) PROVE IInv'
    <2>1. /\ stage[r] = "closed" /\ stage' = [stage EXCEPT ![r] = "ended"]
          /\ at' = [at EXCEPT ![r] = Nobody]
          /\ UNCHANGED <<holds, out, waiting>>
      BY <1>8 DEF Responds, Move
    <2>2. \A q \in holds : q # r /\ at'[q] = at[q] /\ stage'[q] = stage[q]
      BY <1>0, <2>1 DEF HolderOK, PoolTypeOK
    <2>3. PoolTypeOK'
      BY <2>1 DEF PoolTypeOK, Stages
    <2>4. \A q \in holds' : HolderOK(q)'
      BY <2>1, <2>2 DEF HolderOK
    <2>5. Balanced'
      BY <2>1, <2>2, SameHolders
    <2>6. NotYetAsked'
      BY <2>1, AskedApart DEF NotYetAsked, PoolTypeOK, Lists
    <2> QED
      BY <2>3, <2>4, <2>5, <2>6
  <1>9. ASSUME NEW r \in Requests, Exits(r) PROVE IInv'
    <2>1. /\ stage[r] = "returned" /\ stage' = [stage EXCEPT ![r] = "closing"]
          /\ UNCHANGED <<at, holds, out, waiting>>
      BY <1>9 DEF Exits, Move
    <2> QED
      BY <2>1, MovingKeeps DEF Stages, PoolTypeOK
  <1>10. CASE UNCHANGED vars
    BY <1>10 DEF vars, PoolTypeOK, HolderOK, Balanced, Holders, NotYetAsked
  <1> QED
    BY <1>1, <1>2, <1>3, <1>4, <1>5, <1>6, <1>7, <1>8, <1>9, <1>10 DEF Next, Starts, GoesOn

LEMMA IImplies == IInv => NothingLeaks
  <1> SUFFICES ASSUME IInv, NEW w \in Workers
               PROVE  /\ out[w] = Cardinality(Holders(w))
                      /\ \A r \in Holders(w) : stage[r] \in {"awaiting", "returned", "closing"}
                      /\ waiting[w] \notin Holders(w)
    BY DEF IInv, NothingLeaks, Holders
  <1> QED
    BY DEF IInv, Balanced, HolderOK, Holders

-----------------------------------------------------------------------------

\* However many requests there are and however they end, every connection that
\* a pool has lent is held by a request of its own worker that is still being
\* served, and no request waits for the pool with a connection in its hand.
THEOREM NoConnectionLeaks == Spec => []NothingLeaks
  <1>1. Spec => []IInv
    BY IInit, IStep, PTL DEF Spec, Safety
  <1> QED
    BY <1>1, IImplies, PTL
=============================================================================
