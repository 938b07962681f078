--------------------------- MODULE HealIssuesProofs ---------------------------
(***************************************************************************)
(* One issue per finding, and no write the published branch contradicts,   *)
(* for any gates, commits, passes, failures and acts of people.            *)
(*                                                                         *)
(* The inductive invariant says what a pass knows of its results and of    *)
(* the issues it listed, and that a pass which runs alone files only what  *)
(* has no open issue.                                                      *)
(***************************************************************************)
EXTENDS HealIssues, TLAPS

\* A result at a commit is what its gates say.
TrueResults(p) ==
  results[p].head # NoHead => \A t \in Tasks :
    /\ results[p].status[t] = "fail" => t \in Red[results[p].head]
    /\ results[p].status[t] = "pass" => t \notin Red[results[p].head]

\* A pass delivers what ran at the tip it probed.
AtPublished(p) ==
  at[p] \in {"list", "deliver", "close"} =>
    /\ results[p].head # NoHead
    /\ ~stale[p] => results[p].head = origin

\* What it has left failed or passed, and an issue was listed for what passed.
LeftToDo(p) ==
  /\ at[p] \in {"idle", "probe"} => left[p] = {}
  /\ \A t \in left[p] : results[p].status[t] # "skip"
  /\ at[p] \in {"deliver", "close"} =>
       \A t \in left[p] : results[p].status[t] = "pass" => listed[p][t] # 0

\* The issue it is about to close is the one it viewed, unless someone handled it.
AtClose(p) ==
  at[p] = "close" =>
    /\ closing[p] \in Tasks /\ results[p].status[closing[p]] = "pass"
    /\ listed[p][closing[p]] # 0
    /\ ~stale[p] => LET issue == issues[listed[p][closing[p]]]
                    IN  issue.state \in {"open", "completed"} /\ issue.key = closing[p]

Knows(p) == TrueResults(p) /\ AtPublished(p) /\ LeftToDo(p) /\ AtClose(p)

\* A pass that runs alone files only what is not reported.
Alone ==
  ~overlapped =>
    /\ \A p, q \in Passes : at[p] # "idle" /\ at[q] # "idle" => p = q
    /\ \A p \in Passes : at[p] \in {"deliver", "close"} => \A t \in ToFile(p) : OpenFor(t) = {}
    /\ \A t \in Tasks : \A i, j \in OpenFor(t) : i = j

IInv == TypeOK /\ Alone /\ \A p \in Passes : Knows(p)

-----------------------------------------------------------------------------

\* The initial state satisfies the invariant.
LEMMA InitIInv == Init => IInv
  <1> SUFFICES ASSUME Init PROVE IInv
    OBVIOUS
  <1> USE HealAssumption
  <1>1. NoResults \in Result /\ NoResults.head = NoHead
    BY DEF NoResults, Result
  <1>2. [i \in Numbers |-> [state |-> "unused", key |-> NoKey]] \in [Numbers -> Issue]
    BY DEF Issue
  <1>3. TypeOK
    <2>1. 0 \in 0..MaxFaults /\ 0 \in 0..MaxMoves
      OBVIOUS
    <2>2. listed \in [Passes -> [Tasks -> Numbers \cup {0}]]
      BY DEF Init
    <2> QED
      BY <1>1, <1>2, <2>1, <2>2 DEF Init, TypeOK
  <1>4. \A t \in Tasks : OpenFor(t) = {}
    BY DEF Init, OpenFor
  <1>5. Alone
    BY <1>4 DEF Init, Alone, ToFile
  <1>6. \A p \in Passes : Knows(p)
    BY <1>1 DEF Init, Knows, TrueResults, AtPublished, LeftToDo, AtClose
  <1> QED
    BY <1>3, <1>5, <1>6 DEF IInv

\* What Finish leaves behind.
LEMMA Finished ==
  ASSUME TypeOK, NEW p \in Passes, Finish(p)
  PROVE  /\ at'[p] = "idle" /\ results'[p] = NoResults /\ left'[p] = {} /\ stale'[p] = FALSE
         /\ at' \in [Passes -> {"idle", "probe", "list", "deliver", "close"}]
         /\ results' \in [Passes -> Result] /\ left' \in [Passes -> SUBSET Tasks]
         /\ listed' \in [Passes -> [Tasks -> Numbers \cup {0}]]
         /\ closing' \in [Passes -> Tasks \cup {NoKey}] /\ stale' \in [Passes -> BOOLEAN]
         /\ \A q \in Passes \ {p} :
              /\ at'[q] = at[q] /\ results'[q] = results[q] /\ left'[q] = left[q]
              /\ listed'[q] = listed[q] /\ closing'[q] = closing[q] /\ stale'[q] = stale[q]
  <1>1. NoResults \in Result
    BY DEF NoResults, Result
  <1> QED
    BY <1>1 DEF Finish, TypeOK

\* A finished pass knows nothing.
LEMMA FinishKnows ==
  ASSUME TypeOK, NEW p \in Passes, Finish(p)
  PROVE  Knows(p)'
  <1>1. at'[p] = "idle" /\ left'[p] = {} /\ results'[p] = NoResults
    BY Finished
  <1>2. results'[p].head = NoHead
    BY <1>1 DEF NoResults
  <1> QED
    BY <1>1, <1>2 DEF Knows, TrueResults, AtPublished, LeftToDo, AtClose

\* Only the state and the key of an issue change.
LEMMA IssueTypes ==
  ASSUME TypeOK, NEW i \in Numbers, NEW state \in {"unused", "open", "closed", "completed"}
  PROVE  /\ [issues[i] EXCEPT !.state = state] \in Issue
         /\ [issues[i] EXCEPT !.key = NoKey] \in Issue
  BY DEF TypeOK, Issue

\* The listed issues are numbers of open ones, or 0.
LEMMA ListingTypes ==
  ASSUME NEW f \in Listings
  PROVE  /\ f \in [Tasks -> Numbers \cup {0}]
         /\ \A t \in Tasks : f[t] = 0 => OpenFor(t) = {}
  <1>1. 0 \notin Numbers
    BY DEF Numbers
  <1> QED
    BY <1>1 DEF Listings, OpenFor

\* A call costs at most a fault.
LEMMA CallTypes ==
  ASSUME TypeOK, Fault \/ UNCHANGED faults
  PROVE  faults' \in 0..MaxFaults
  BY HealAssumption DEF TypeOK, Fault

\* Every step keeps every variable in its kind.
LEMMA StepTypes == IInv /\ [Next]_vars => TypeOK'
  <1> SUFFICES ASSUME IInv, [Next]_vars PROVE TypeOK'
    OBVIOUS
  <1> USE HealAssumption
  <1>0. TypeOK /\ \A p \in Passes : Knows(p)
    BY DEF IInv
  <1>1. ASSUME NEW p \in Passes, Begin(p) PROVE TypeOK'
    <2>1. PICK verdict \in Verdicts :
            results' = [results EXCEPT ![p] =
              [status |-> verdict, head |-> IF dirty THEN NoHead ELSE clone]]
      BY <1>1 DEF Begin
    <2>2. verdict \in [Tasks -> {"pass", "fail", "skip"}]
      BY <1>0 DEF Verdicts, TypeOK
    <2>3. results' \in [Passes -> Result]
      BY <1>0, <2>1, <2>2 DEF Result, TypeOK
    <2>4. overlapped' \in BOOLEAN
      BY <1>0, <1>1 DEF Begin, TypeOK
    <2> QED
      BY <1>0, <1>1, <2>3, <2>4 DEF Begin, world, TypeOK
  <1>2. ASSUME NEW p \in Passes, ProbeTip(p) PROVE TypeOK'
    <2>1. PICK tip \in {origin, NoHead} :
            /\ Calls(tip # NoHead)
            /\ IF Published(p, tip) = {} THEN Finish(p)
               ELSE /\ left' = [left EXCEPT ![p] = Published(p, tip)]
                    /\ at'   = [at EXCEPT ![p] = "list"]
                    /\ UNCHANGED <<results, listed, closing, stale>>
      BY <1>2 DEF ProbeTip
    <2>2. faults' \in 0..MaxFaults
      BY <1>0, <2>1, CallTypes DEF Calls
    <2>3. UNCHANGED <<world, issues, overlapped, moves>>
      BY <1>2 DEF ProbeTip
    <2>4. CASE Finish(p)
      BY <1>0, <2>2, <2>3, <2>4, Finished DEF TypeOK, world
    <2>5. CASE ~Finish(p)
      <3>1. left' \in [Passes -> SUBSET Tasks]
        BY <1>0, <2>1, <2>5 DEF TypeOK, Published
      <3>2. at' \in [Passes -> {"idle", "probe", "list", "deliver", "close"}]
        BY <1>0, <2>1, <2>5 DEF TypeOK
      <3> QED
        BY <1>0, <2>1, <2>2, <2>3, <2>5, <3>1, <3>2 DEF TypeOK, world
    <2> QED
      BY <2>4, <2>5
  <1>3. ASSUME NEW p \in Passes, List(p) PROVE TypeOK'
    <2>1. UNCHANGED <<world, issues, overlapped, moves>>
      BY <1>3 DEF List
    <2>2. CASE Finish(p) /\ (Fault \/ UNCHANGED faults)
      <3>1. faults' \in 0..MaxFaults
        BY <1>0, <2>2, CallTypes DEF TypeOK
      <3> QED
        BY <1>0, <2>1, <2>2, <3>1, Finished DEF TypeOK, world
    <2>3. CASE ~(Finish(p) /\ (Fault \/ UNCHANGED faults))
      <3>1. /\ at' = [at EXCEPT ![p] = "deliver"]
            /\ UNCHANGED <<results, closing, stale, faults>>
        BY <1>3, <2>3 DEF List
      <3>2. PICK f \in Listings :
              /\ listed' = [listed EXCEPT ![p] = f]
              /\ left' = [left EXCEPT ![p] = {t \in @ :
                   IF results[p].status[t] = "fail" THEN f[t] = 0 ELSE f[t] # 0}]
        BY <1>3, <2>3 DEF List
      <3>3. f \in [Tasks -> Numbers \cup {0}]
        BY ListingTypes
      <3> QED
        BY <1>0, <2>1, <3>1, <3>2, <3>3 DEF TypeOK, world
    <2> QED
      BY <2>2, <2>3
  <1>4. ASSUME NEW p \in Passes, NEW t \in Tasks, File(p, t) PROVE TypeOK'
    <2>1. faults' \in 0..MaxFaults
      BY <1>0, <1>4, CallTypes DEF File
    <2>2. issues' \in [Numbers -> Issue]
      <3>1. [state |-> "open", key |-> t] \in Issue
        BY DEF Issue
      <3> QED
        BY <1>0, <1>4, <3>1 DEF File, TypeOK
    <2> QED
      BY <1>0, <1>4, <2>1, <2>2 DEF File, TypeOK, world
  <1>5. ASSUME NEW p \in Passes, NEW t \in Tasks, View(p, t) PROVE TypeOK'
    <2>1. faults' \in 0..MaxFaults
      BY <1>0, <1>5, CallTypes DEF View
    <2>2. /\ left' = [left EXCEPT ![p] = @ \ {t}]
          /\ UNCHANGED <<world, issues, results, listed, stale, overlapped, moves>>
          /\ \/ at' = [at EXCEPT ![p] = "close"] /\ closing' = [closing EXCEPT ![p] = t]
             \/ UNCHANGED <<at, closing>>
      BY <1>5 DEF View
    <2>3. left' \in [Passes -> SUBSET Tasks]
      BY <1>0, <2>2 DEF TypeOK
    <2>4. /\ at' \in [Passes -> {"idle", "probe", "list", "deliver", "close"}]
          /\ closing' \in [Passes -> Tasks \cup {NoKey}]
      <3>1. CASE at' = [at EXCEPT ![p] = "close"] /\ closing' = [closing EXCEPT ![p] = t]
        BY <1>0, <3>1 DEF TypeOK
      <3>2. CASE UNCHANGED <<at, closing>>
        BY <1>0, <3>2 DEF TypeOK
      <3> QED
        BY <2>2, <3>1, <3>2
    <2>5. UNCHANGED <<world, issues, results, listed, stale, overlapped, moves>>
      BY <2>2
    <2> QED
      BY <1>0, <2>1, <2>3, <2>4, <2>5 DEF TypeOK, world
  <1>6. ASSUME NEW p \in Passes, Close(p) PROVE TypeOK'
    <2>1. faults' \in 0..MaxFaults
      BY <1>0, <1>6, CallTypes DEF Close, Calls
    <2>2. issues' \in [Numbers -> Issue]
      <3> DEFINE done(i) == [issues[i] EXCEPT !.state = "completed"]
      <3>1. \A i \in Numbers : done(i) \in Issue
        BY <1>0, IssueTypes
      <3>2. PICK i : issues' = issues \/ issues' = [issues EXCEPT ![i] = done(i)]
        BY <1>6 DEF Close
      <3> HIDE DEF done
      <3> QED
        BY <1>0, <3>1, <3>2 DEF TypeOK
    <2> QED
      BY <1>0, <1>6, <2>1, <2>2 DEF Close, TypeOK, world
  <1>7. ASSUME NEW p \in Passes, Over(p) \/ Killed(p) PROVE TypeOK'
    <2>1. Finish(p) /\ UNCHANGED <<world, issues, overlapped, moves>>
      BY <1>7 DEF Over, Killed
    <2>2. faults' \in 0..MaxFaults
      BY <1>0, <1>7, CallTypes DEF Over, Killed
    <2> QED
      BY <1>0, <2>1, <2>2, Finished DEF TypeOK, world
  <1>8. CASE People
    <2>1. moves' \in 0..MaxMoves
      BY <1>0, <1>8 DEF People, Push, Checkout, HandClose, HandEdit, Handle, Moves, TypeOK
    <2>2. ASSUME NEW c \in Commits, Push(c) PROVE TypeOK'
      <3>1. stale' \in [Passes -> BOOLEAN]
        BY <1>0, <2>2 DEF Push, TypeOK
      <3> QED
        BY <1>0, <2>1, <2>2, <3>1 DEF Push, TypeOK, pass
    <2>3. ASSUME NEW c \in Commits, NEW d \in BOOLEAN, Checkout(c, d) PROVE TypeOK'
      BY <1>0, <2>1, <2>3 DEF Checkout, TypeOK, pass
    <2>4. ASSUME NEW i \in Numbers, HandClose(i) \/ HandEdit(i) PROVE TypeOK'
      <3>1. stale' \in [Passes -> BOOLEAN]
        BY <1>0, <2>4 DEF HandClose, HandEdit, Handle, TypeOK
      <3>2. issues' \in [Numbers -> Issue]
        <4> DEFINE handled == [issues[i] EXCEPT !.state = "closed"]
                   edited  == [issues[i] EXCEPT !.key = NoKey]
        <4>1. handled \in Issue /\ edited \in Issue
          BY <1>0, IssueTypes
        <4>2. issues' = [issues EXCEPT ![i] = handled] \/ issues' = [issues EXCEPT ![i] = edited]
          BY <2>4 DEF HandClose, HandEdit, Handle
        <4> HIDE DEF handled, edited
        <4> QED
          BY <1>0, <4>1, <4>2 DEF TypeOK
      <3> QED
        BY <1>0, <2>1, <2>4, <3>1, <3>2 DEF HandClose, HandEdit, Handle, TypeOK, pass, world
    <2> QED
      BY <1>8, <2>2, <2>3, <2>4 DEF People
  <1>9. CASE UNCHANGED vars
    BY <1>0, <1>9 DEF vars, world, pass, TypeOK
  <1> QED
    BY <1>1, <1>2, <1>3, <1>4, <1>5, <1>6, <1>7, <1>8, <1>9 DEF Next, PassStep

-----------------------------------------------------------------------------
(* What the passes know. *)

\* A pass files a new issue or completes an old one, and changes no other.
PassWrites ==
  /\ UNCHANGED world
  /\ \A i \in Numbers :
       \/ issues[i].state = "unused"
       \/ issues'[i] = issues[i]
       \/ issues'[i].state = "completed" /\ issues'[i].key = issues[i].key

\* A pass touches no other pass.
Untouched(q) ==
  /\ at'[q] = at[q] /\ results'[q] = results[q] /\ left'[q] = left[q]
  /\ listed'[q] = listed[q] /\ closing'[q] = closing[q] /\ stale'[q] = stale[q]

\* Unless its turn comes, nothing it knows changes.
LEMMA OthersKnow ==
  ASSUME TypeOK, NEW q \in Passes, Knows(q), PassWrites, Untouched(q)
  PROVE  Knows(q)'
  <1>1. TrueResults(q)' /\ AtPublished(q)' /\ LeftToDo(q)'
    BY DEF Knows, TrueResults, AtPublished, LeftToDo, PassWrites, Untouched, world
  <1>2. AtClose(q)'
    <2>1. SUFFICES ASSUME at[q] = "close", ~stale[q]
                   PROVE  LET issue == issues'[listed[q][closing[q]]]
                          IN  issue.state \in {"open", "completed"} /\ issue.key = closing[q]
      BY DEF Knows, AtClose, Untouched
    <2>2. listed[q][closing[q]] \in Numbers
      BY <2>1 DEF TypeOK, Knows, AtClose
    <2> QED
      BY <2>1, <2>2 DEF Knows, AtClose, PassWrites
  <1> QED
    BY <1>1, <1>2 DEF Knows

\* What a step of a pass writes, and what becomes of what it knows.
LEMMA PassKnows ==
  ASSUME IInv, NEW p \in Passes, Begin(p) \/ PassStep(p) \/ Killed(p)
  PROVE  PassWrites /\ (\A q \in Passes \ {p} : Untouched(q)) /\ Knows(p)'
  <1> USE HealAssumption
  <1>0. TypeOK /\ Knows(p)
    BY DEF IInv
  <1>1. CASE Begin(p)
    <2>1. PICK verdict \in Verdicts :
            results' = [results EXCEPT ![p] =
              [status |-> verdict, head |-> IF dirty THEN NoHead ELSE clone]]
      BY <1>1 DEF Begin
    <2>2. PassWrites /\ \A q \in Passes \ {p} : Untouched(q)
      BY <1>0, <1>1 DEF Begin, PassWrites, Untouched, TypeOK
    <2>3. TrueResults(p)'
      BY <1>0, <2>1 DEF TrueResults, Verdicts, TypeOK
    <2>4. at'[p] = "probe" /\ left'[p] = {}
      BY <1>0, <1>1 DEF Begin, TypeOK, Knows, LeftToDo
    <2> QED
      BY <2>2, <2>3, <2>4 DEF Knows, AtPublished, LeftToDo, AtClose
  <1>2. CASE ProbeTip(p)
    <2>1. PICK tip \in {origin, NoHead} :
            IF Published(p, tip) = {} THEN Finish(p)
            ELSE /\ left' = [left EXCEPT ![p] = Published(p, tip)]
                 /\ at'   = [at EXCEPT ![p] = "list"]
                 /\ UNCHANGED <<results, listed, closing, stale>>
      BY <1>2 DEF ProbeTip
    <2>2. PassWrites
      BY <1>2 DEF ProbeTip, PassWrites
    <2>3. CASE Finish(p)
      BY <1>0, <2>2, <2>3, Finished, FinishKnows DEF Untouched
    <2>4. CASE ~Finish(p)
      <3>1. \A q \in Passes \ {p} : Untouched(q)
        BY <1>0, <2>1, <2>4 DEF Untouched, TypeOK
      <3>2. at'[p] = "list" /\ left'[p] = Published(p, tip) /\ results'[p] = results[p]
        BY <1>0, <2>1, <2>4 DEF TypeOK
      <3>3. results[p].head # NoHead /\ results[p].head = origin
        BY <2>1, <2>4 DEF Published
      <3>4. origin' = origin
        BY <2>2 DEF PassWrites, world
      <3> QED
        BY <1>0, <2>2, <3>1, <3>2, <3>3, <3>4
           DEF Knows, TrueResults, AtPublished, LeftToDo, AtClose, Published
    <2> QED
      BY <2>3, <2>4
  <1>3. CASE List(p)
    <2>1. PassWrites
      BY <1>3 DEF List, PassWrites
    <2>2. CASE Finish(p)
      BY <1>0, <2>1, <2>2, Finished, FinishKnows DEF Untouched
    <2>3. CASE ~Finish(p)
      <3>1. /\ at[p] = "list" /\ at' = [at EXCEPT ![p] = "deliver"]
            /\ UNCHANGED <<results, closing, stale>>
        BY <1>3, <2>3 DEF List
      <3>2. PICK f \in Listings :
              /\ listed' = [listed EXCEPT ![p] = f]
              /\ left' = [left EXCEPT ![p] = {t \in @ :
                   IF results[p].status[t] = "fail" THEN f[t] = 0 ELSE f[t] # 0}]
        BY <1>3, <2>3 DEF List
      <3>3. \A q \in Passes \ {p} : Untouched(q)
        BY <1>0, <3>1, <3>2 DEF Untouched, TypeOK
      <3>4. /\ at'[p] = "deliver" /\ listed'[p] = f
            /\ left'[p] = {t \in left[p] :
                 IF results[p].status[t] = "fail" THEN f[t] = 0 ELSE f[t] # 0}
        BY <1>0, <3>1, <3>2 DEF TypeOK
      <3>5. UNCHANGED <<results, stale, origin>>
        BY <2>1, <3>1 DEF PassWrites, world
      <3>6. TrueResults(p)' /\ AtPublished(p)' /\ AtClose(p)'
        BY <1>0, <3>1, <3>4, <3>5 DEF Knows, TrueResults, AtPublished, AtClose
      <3>7. LeftToDo(p)'
        BY <1>0, <3>4, <3>5 DEF Knows, LeftToDo
      <3> QED
        BY <2>1, <3>3, <3>6, <3>7 DEF Knows
    <2> QED
      BY <2>2, <2>3
  <1>4. ASSUME NEW t \in Tasks, File(p, t)
        PROVE  PassWrites /\ (\A q \in Passes \ {p} : Untouched(q)) /\ Knows(p)'
    <2>1. PassWrites
      BY <1>0, <1>4 DEF File, PassWrites, TypeOK
    <2>2. \A q \in Passes \ {p} : Untouched(q)
      BY <1>0, <1>4 DEF File, Untouched, TypeOK
    <2>3. /\ at[p] = "deliver" /\ left'[p] \subseteq left[p]
          /\ UNCHANGED <<origin, at, results, listed, stale>>
      BY <1>0, <1>4 DEF File, TypeOK, world
    <2> QED
      BY <1>0, <2>1, <2>2, <2>3 DEF Knows, TrueResults, AtPublished, LeftToDo, AtClose
  <1>5. ASSUME NEW t \in Tasks, View(p, t)
        PROVE  PassWrites /\ (\A q \in Passes \ {p} : Untouched(q)) /\ Knows(p)'
    <2>1. PassWrites
      BY <1>5 DEF View, PassWrites
    <2>2. \A q \in Passes \ {p} : Untouched(q)
      <3>1. CASE at' = [at EXCEPT ![p] = "close"] /\ closing' = [closing EXCEPT ![p] = t]
        BY <1>0, <1>5, <3>1 DEF View, Untouched, TypeOK
      <3>2. CASE UNCHANGED <<at, closing>>
        BY <1>0, <1>5, <3>2 DEF View, Untouched, TypeOK
      <3> QED
        BY <1>5, <3>1, <3>2 DEF View
    <2>3. /\ at[p] = "deliver" /\ left'[p] \subseteq left[p] /\ t \in left[p] /\ ToFile(p) = {}
          /\ UNCHANGED <<origin, results, listed, stale, issues>>
      BY <1>0, <1>5 DEF View, TypeOK, world
    <2>4. results[p].status[t] = "pass" /\ listed[p][t] # 0
      <3>1. results[p].status[t] \in {"pass", "fail", "skip"}
        BY <1>0 DEF TypeOK, Result
      <3>2. results[p].status[t] = "pass"
        BY <1>0, <2>3, <3>1 DEF Knows, LeftToDo, ToFile
      <3> QED
        BY <1>0, <2>3, <3>2 DEF Knows, LeftToDo
    <2>5. CASE UNCHANGED <<at, closing>>
      BY <1>0, <2>1, <2>2, <2>3, <2>5 DEF Knows, TrueResults, AtPublished, LeftToDo, AtClose
    <2>6. CASE ~UNCHANGED <<at, closing>>
      <3>1. at' = [at EXCEPT ![p] = "close"] /\ closing' = [closing EXCEPT ![p] = t]
        BY <1>5, <2>6 DEF View
      <3>2. listed[p][t] \in OpenFor(t)
        BY <1>5, <2>6 DEF View
      <3>3. at'[p] = "close" /\ closing'[p] = t
        BY <1>0, <3>1 DEF TypeOK
      <3>4. TrueResults(p)' /\ AtPublished(p)' /\ LeftToDo(p)'
        BY <1>0, <2>3, <3>3 DEF Knows, TrueResults, AtPublished, LeftToDo
      <3>5. AtClose(p)'
        BY <2>3, <2>4, <3>2, <3>3 DEF AtClose, OpenFor
      <3> QED
        BY <2>1, <2>2, <3>4, <3>5 DEF Knows
    <2> QED
      BY <2>5, <2>6
  <1>6. CASE Close(p)
    <2>1. PassWrites
      BY <1>0, <1>6 DEF Close, PassWrites, TypeOK, Issue
    <2>2. \A q \in Passes \ {p} : Untouched(q)
      BY <1>0, <1>6 DEF Close, Untouched, TypeOK
    <2>3. /\ at[p] = "close" /\ at'[p] = "deliver"
          /\ UNCHANGED <<origin, results, left, listed, stale>>
      BY <1>0, <1>6 DEF Close, TypeOK, world
    <2> QED
      BY <1>0, <2>1, <2>2, <2>3 DEF Knows, TrueResults, AtPublished, LeftToDo, AtClose
  <1>7. CASE Over(p) \/ Killed(p)
    <2>1. Finish(p) /\ PassWrites
      BY <1>7 DEF Over, Killed, PassWrites
    <2> QED
      BY <1>0, <2>1, Finished, FinishKnows DEF Untouched
  <1> QED
    BY <1>1, <1>2, <1>3, <1>4, <1>5, <1>6, <1>7 DEF PassStep

\* Whatever people do, a pass knows what it knew, or that it is stale.
LEMMA PeopleKnow ==
  ASSUME IInv, People, NEW p \in Passes
  PROVE  Knows(p)'
  <1>0. TypeOK /\ Knows(p)
    BY DEF IInv
  <1>1. UNCHANGED pass
    BY DEF People, Push, Checkout, HandClose, HandEdit, Handle
  <1>2. TrueResults(p)' /\ LeftToDo(p)'
    BY <1>0, <1>1 DEF pass, Knows, TrueResults, LeftToDo
  <1>3. ASSUME NEW c \in Commits, Push(c) PROVE Knows(p)'
    <2>1. stale'[p] <=> stale[p] \/ at[p] \in {"list", "deliver", "close"}
      BY <1>3 DEF Push
    <2>2. UNCHANGED issues
      BY <1>3 DEF Push
    <2> QED
      BY <1>0, <1>1, <1>2, <2>1, <2>2 DEF pass, Knows, AtPublished, AtClose
  <1>4. ASSUME NEW c \in Commits, NEW d \in BOOLEAN, Checkout(c, d) PROVE Knows(p)'
    BY <1>0, <1>1, <1>2, <1>4 DEF Checkout, pass, Knows, AtPublished, AtClose
  <1>5. ASSUME NEW i \in Numbers, HandClose(i) \/ HandEdit(i) PROVE Knows(p)'
    <2>1. stale'[p] <=> stale[p] \/ (at[p] = "close" /\ listed[p][closing[p]] = i)
      BY <1>5 DEF HandClose, HandEdit, Handle
    <2>2. \A j \in Numbers : j # i => issues'[j] = issues[j]
      BY <1>0, <1>5 DEF HandClose, HandEdit, Handle, TypeOK
    <2>3. UNCHANGED origin
      BY <1>5 DEF HandClose, HandEdit, Handle, world
    <2>4. at[p] = "close" => listed[p][closing[p]] \in Numbers
      BY <1>0 DEF TypeOK, Knows, AtClose
    <2> QED
      BY <1>0, <1>1, <1>2, <2>1, <2>2, <2>3, <2>4 DEF pass, Knows, AtPublished, AtClose
  <1> QED
    BY <1>3, <1>4, <1>5 DEF People

-----------------------------------------------------------------------------
(* A pass that runs alone. *)

\* A step that opens no issue, starts no pass and adds nothing to file keeps
\* what a pass that runs alone relies on.
LEMMA AloneKept ==
  ASSUME IInv, UNCHANGED overlapped,
         \A t \in Tasks : OpenFor(t)' \subseteq OpenFor(t),
         \A p \in Passes : /\ at'[p] # "idle" => at[p] # "idle"
                           /\ at'[p] \in {"deliver", "close"} => at[p] \in {"deliver", "close"}
                           /\ at'[p] \in {"deliver", "close"} => ToFile(p)' \subseteq ToFile(p)
  PROVE  Alone'
  <1>1. \A p \in Passes : ToFile(p) \subseteq Tasks
    BY DEF IInv, TypeOK, ToFile
  <1> QED
    BY <1>1 DEF IInv, Alone

\* A step of a pass keeps it too.
LEMMA PassAlone ==
  ASSUME IInv, NEW p \in Passes, Begin(p) \/ PassStep(p) \/ Killed(p)
  PROVE  Alone'
  <1>0. TypeOK /\ Alone /\ Knows(p)
    BY DEF IInv
  <1>1. \A q \in Passes \ {p} : Untouched(q)
    BY PassKnows
  <1>2. ASSUME UNCHANGED overlapped, at'[p] # "idle" => at[p] # "idle",
               \A t \in Tasks : OpenFor(t)' \subseteq OpenFor(t),
               at'[p] \in {"deliver", "close"} =>
                 at[p] \in {"deliver", "close"} /\ ToFile(p)' \subseteq ToFile(p)
        PROVE  Alone'
    <2>1. \A q \in Passes \ {p} : at'[q] = at[q] /\ ToFile(q)' = ToFile(q)
      BY <1>1 DEF Untouched, ToFile
    <2> QED
      BY <1>2, <2>1, AloneKept
  <1>3. CASE Begin(p)
    <2>1. overlapped' = (overlapped \/ \E q \in Passes : at[q] # "idle")
      BY <1>3 DEF Begin
    <2>2. \A t \in Tasks : OpenFor(t)' = OpenFor(t)
      BY <1>3 DEF Begin, OpenFor
    <2>3. at'[p] = "probe" /\ \A q \in Passes \ {p} : at'[q] = at[q] /\ ToFile(q)' = ToFile(q)
      BY <1>0, <1>1, <1>3 DEF Begin, Untouched, ToFile, TypeOK
    <2> QED
      BY <1>0, <2>1, <2>2, <2>3 DEF Alone
  <1>4. CASE ProbeTip(p)
    <2>1. at[p] = "probe" /\ at'[p] \in {"idle", "list"} /\ UNCHANGED <<issues, overlapped>>
      <3>1. CASE Finish(p)
        BY <1>0, <1>4, <3>1 DEF ProbeTip, Finish, TypeOK
      <3>2. CASE ~Finish(p)
        BY <1>0, <1>4, <3>2 DEF ProbeTip, TypeOK
      <3> QED
        BY <3>1, <3>2
    <2> QED
      BY <1>2, <2>1 DEF OpenFor
  <1>5. CASE List(p)
    <2>1. at[p] = "list" /\ UNCHANGED <<issues, overlapped>>
      BY <1>5 DEF List
    <2>2. \A t \in Tasks : OpenFor(t)' = OpenFor(t)
      BY <2>1 DEF OpenFor
    <2>3. CASE Finish(p)
      BY <1>2, <2>1, <2>2, <2>3, Finished, <1>0
    <2>4. CASE ~Finish(p)
      <3>1. PICK f \in Listings :
              /\ listed' = [listed EXCEPT ![p] = f]
              /\ left' = [left EXCEPT ![p] = {t \in @ :
                   IF results[p].status[t] = "fail" THEN f[t] = 0 ELSE f[t] # 0}]
        BY <1>5, <2>4 DEF List
      <3>2. results' = results
        BY <1>5, <2>4 DEF List
      <3>3. \A t \in ToFile(p)' : t \in Tasks /\ f[t] = 0
        BY <1>0, <3>1, <3>2 DEF ToFile, TypeOK
      <3>4. \A t \in ToFile(p)' : OpenFor(t) = {}
        BY <3>3, ListingTypes
      <3>5. \A q \in Passes \ {p} : at'[q] = at[q] /\ ToFile(q)' = ToFile(q)
        BY <1>1 DEF Untouched, ToFile
      <3>6. \A q \in Passes : ToFile(q)' \subseteq Tasks
        <4>1. left' \in [Passes -> SUBSET Tasks]
          BY <1>0, <3>1 DEF TypeOK
        <4> QED
          BY <4>1 DEF ToFile
      <3>7. \A q \in Passes : ToFile(q) \subseteq Tasks
        BY <1>0 DEF TypeOK, ToFile
      <3> QED
        BY <1>0, <2>1, <2>2, <3>4, <3>5, <3>6, <3>7 DEF Alone
    <2> QED
      BY <2>3, <2>4
  <1>6. ASSUME NEW t \in Tasks, File(p, t) PROVE Alone'
    <2>1. SUFFICES ASSUME ~overlapped' PROVE Alone'
      BY DEF Alone
    <2>2. /\ at[p] = "deliver" /\ t \in ToFile(p) /\ UNCHANGED <<at, results, overlapped>>
          /\ left'[p] = left[p] \ {t}
      BY <1>0, <1>6 DEF File, TypeOK
    <2>3. \A q \in Passes : at[q] # "idle" => q = p
      BY <1>0, <2>1, <2>2 DEF Alone
    <2>4. OpenFor(t) = {}
      BY <1>0, <2>1, <2>2 DEF Alone
    <2>5. \A i, j \in OpenFor(t)' : i = j
      <3>1. CASE UNCHANGED issues
        BY <1>6, <2>4, <3>1 DEF OpenFor, File
      <3>2. CASE ~UNCHANGED issues
        <4>1. PICK i \in Numbers : issues' = [issues EXCEPT ![i] = [state |-> "open", key |-> t]]
          BY <1>6, <3>2 DEF File
        <4> QED
          BY <1>0, <2>4, <4>1 DEF OpenFor, TypeOK
      <3> QED
        BY <3>1, <3>2
    <2>6. \A u \in Tasks \ {t} : OpenFor(u)' \subseteq OpenFor(u)
      BY <1>0, <1>6 DEF File, OpenFor, TypeOK
    <2>7. ToFile(p)' = ToFile(p) \ {t}
      BY <2>2 DEF ToFile
    <2>8. ToFile(p) \subseteq Tasks
      BY <1>0 DEF ToFile, TypeOK
    <2> QED
      BY <1>0, <2>1, <2>2, <2>3, <2>5, <2>6, <2>7, <2>8 DEF Alone
  <1>7. ASSUME NEW t \in Tasks, View(p, t) PROVE Alone'
    <2>1. /\ at[p] = "deliver" /\ ToFile(p) = {} /\ UNCHANGED <<issues, results, overlapped>>
          /\ left'[p] = left[p] \ {t}
      BY <1>0, <1>7 DEF View, TypeOK
    <2>2. ToFile(p)' \subseteq ToFile(p)
      BY <2>1 DEF ToFile
    <2> QED
      BY <1>2, <2>1, <2>2 DEF OpenFor
  <1>8. CASE Close(p)
    <2>1. /\ at[p] = "close" /\ UNCHANGED <<results, left, overlapped>>
      BY <1>8 DEF Close
    <2>2. \A t \in Tasks : OpenFor(t)' \subseteq OpenFor(t)
      BY <1>0, <1>8 DEF Close, OpenFor, TypeOK, Issue
    <2>3. ToFile(p)' = ToFile(p)
      BY <2>1 DEF ToFile
    <2> QED
      BY <1>2, <2>1, <2>2, <2>3
  <1>9. CASE Over(p) \/ Killed(p)
    <2>1. Finish(p) /\ UNCHANGED <<issues, overlapped>>
      BY <1>9 DEF Over, Killed
    <2>2. at'[p] = "idle"
      BY <1>0, <2>1, Finished
    <2> QED
      BY <1>2, <2>1, <2>2 DEF OpenFor
  <1> QED
    BY <1>3, <1>4, <1>5, <1>6, <1>7, <1>8, <1>9 DEF PassStep

\* People open no issue of ours.
LEMMA PeopleAlone == ASSUME IInv, People PROVE Alone'
  <1>0. TypeOK
    BY DEF IInv
  <1>1. UNCHANGED <<pass, overlapped>>
    BY DEF People, Push, Checkout, HandClose, HandEdit, Handle
  <1>2. \A t \in Tasks : OpenFor(t)' \subseteq OpenFor(t)
    <2>1. CASE UNCHANGED issues
      BY <2>1 DEF OpenFor
    <2>2. ASSUME NEW i \in Numbers, HandClose(i) \/ HandEdit(i)
          PROVE  \A t \in Tasks : OpenFor(t)' \subseteq OpenFor(t)
      BY <1>0, <2>2, HealAssumption DEF HandClose, HandEdit, Handle, OpenFor, TypeOK, Issue
    <2> QED
      BY <2>1, <2>2 DEF People, Push, Checkout
  <1>3. \A p \in Passes : ToFile(p)' = ToFile(p)
    BY <1>1 DEF pass, ToFile
  <1> QED
    BY <1>1, <1>2, <1>3, AloneKept DEF pass

-----------------------------------------------------------------------------

\* Every step keeps the invariant.
LEMMA StepIInv == IInv /\ [Next]_vars => IInv'
  <1> SUFFICES ASSUME IInv, [Next]_vars PROVE IInv'
    OBVIOUS
  <1>1. TypeOK'
    BY StepTypes
  <1>2. ASSUME NEW p \in Passes, Begin(p) \/ PassStep(p) \/ Killed(p) PROVE IInv'
    <2>1. Knows(p)' /\ PassWrites /\ \A q \in Passes \ {p} : Untouched(q)
      BY <1>2, PassKnows
    <2>2. \A q \in Passes \ {p} : Knows(q)'
      BY <2>1, OthersKnow DEF IInv
    <2> QED
      BY <1>1, <1>2, <2>1, <2>2, PassAlone DEF IInv
  <1>3. CASE People
    BY <1>1, <1>3, PeopleKnow, PeopleAlone DEF IInv
  <1>4. CASE UNCHANGED vars
    BY <1>1, <1>4 DEF IInv, vars, world, pass, Alone, ToFile, OpenFor, Knows, TrueResults,
                      AtPublished, LeftToDo, AtClose
  <1> QED
    BY <1>2, <1>3, <1>4 DEF Next

\* The invariant holds throughout.
THEOREM Invariance == Spec => []IInv
  <1>1. Init => IInv
    BY InitIInv
  <1>2. IInv /\ [Next]_vars => IInv'
    BY StepIInv
  <1> QED
    BY <1>1, <1>2, PTL DEF Spec

\* Every variable holds a value of its kind (the records the sink of
\* heal_issues works on).
THEOREM TypeCorrect == Spec => []TypeOK
  <1>1. IInv => TypeOK
    BY DEF IInv
  <1> QED
    BY <1>1, Invariance, PTL

\* "One issue per finding" while passes run one at a time, whatever calls fail
\* and whatever people do (heal_issues, _file_issues).
THEOREM OneIssuePerFindingHolds == Spec => []OneIssuePerFinding
  <1>1. IInv => OneIssuePerFinding
    BY DEF IInv, Alone, OneIssuePerFinding
  <1> QED
    BY <1>1, Invariance, PTL

\* What a step may do to an issue: the action of WritesAreTrue.
TrueWrite(i) ==
  /\ issues[i].state = "unused" /\ issues'[i].state = "open" =>
       issues'[i].key \in Red[origin] \/ \E p \in Passes : stale[p]
  /\ issues[i].state # "completed" /\ issues'[i].state = "completed" =>
       \/ issues[i].state = "open" /\ issues[i].key \in Tasks \ Red[origin]
       \/ \E p \in Passes : stale[p]

\* A pass writes what its results say of the tip.
LEMMA StepWrites == IInv /\ [Next]_vars => \A i \in Numbers : TrueWrite(i)
  <1> SUFFICES ASSUME IInv, [Next]_vars, NEW i \in Numbers PROVE TrueWrite(i)
    OBVIOUS
  <1>0. TypeOK /\ \A p \in Passes : Knows(p)
    BY DEF IInv
  <1>1. CASE UNCHANGED issues
    BY <1>1 DEF TrueWrite
  <1>2. ASSUME NEW p \in Passes, NEW t \in Tasks, File(p, t) PROVE TrueWrite(i)
    <2>1. issues'[i] = issues[i] \/ issues'[i] = [state |-> "open", key |-> t]
      BY <1>0, <1>2 DEF File, TypeOK
    <2>2. ~stale[p] => t \in Red[origin]
      BY <1>0, <1>2 DEF File, ToFile, Knows, TrueResults, AtPublished
    <2> QED
      BY <2>1, <2>2 DEF TrueWrite
  <1>3. ASSUME NEW p \in Passes, Close(p) PROVE TrueWrite(i)
    <2>1. issues'[i] = issues[i] \/ i = listed[p][closing[p]]
      BY <1>0, <1>3 DEF Close, TypeOK
    <2>2. issues'[i].state = issues[i].state \/ issues'[i].state = "completed"
      BY <1>0, <1>3 DEF Close, TypeOK, Issue
    <2>3. ASSUME ~stale[p], i = listed[p][closing[p]], issues[i].state # "completed"
          PROVE  issues[i].state = "open" /\ issues[i].key \in Tasks \ Red[origin]
      BY <1>0, <1>3, <2>3 DEF Close, Knows, TrueResults, AtPublished, AtClose
    <2> QED
      BY <2>1, <2>2, <2>3 DEF TrueWrite
  <1>4. ASSUME NEW j \in Numbers, HandClose(j) \/ HandEdit(j) PROVE TrueWrite(i)
    BY <1>0, <1>4 DEF HandClose, HandEdit, Handle, TypeOK, Issue, TrueWrite
  <1> QED
    BY <1>1, <1>2, <1>3, <1>4
       DEF Next, PassStep, People, Begin, ProbeTip, List, View, Over, Killed, Push, Checkout, vars

\* A pass files only what fails on the published default branch, and closes
\* only what passes on it and is still ours, unless what it read has changed
\* since (heal_issues._published, landing.close_own_issue).
THEOREM WritesAreTrueHolds == Spec => WritesAreTrue
  <1>1. IInv /\ [Next]_vars =>
          [\A i \in Numbers :
             /\ issues[i].state = "unused" /\ issues'[i].state = "open" =>
                  issues'[i].key \in Red[origin] \/ \E p \in Passes : stale[p]
             /\ issues[i].state # "completed" /\ issues'[i].state = "completed" =>
                  \/ issues[i].state = "open" /\ issues[i].key \in Tasks \ Red[origin]
                  \/ \E p \in Passes : stale[p]]_vars
    BY StepWrites DEF TrueWrite
  <1> QED
    BY <1>1, Invariance, PTL DEF Spec, WritesAreTrue
=============================================================================
