---------------------------- MODULE LifecycleProofs ----------------------------
(***************************************************************************)
(* Lifecycle, proved for any sessions, branches and bounds.                *)
(*                                                                         *)
(* The inductive invariant IInv says of a session at each step what its    *)
(* command is: what check has seen of a node's prerequisites is what       *)
(* answered yes, and what those need answered yes or is still on the walk; *)
(* no verb comes to push with the trunk for its branch; and what is left   *)
(* of a raw command that the guard let through, unless the guard was       *)
(* killed, holds no push.                                                  *)
(***************************************************************************)
EXTENDS Lifecycle, TLAPS

Places == {"idle", "walk", "detect", "head", "current", "choose", "resolve", "push", "verify",
           "view", "ready", "existing", "open", "monitor", "review", "merge", "admin", "raw", "done"}

Command == [verb : {"none", "check", "push", "promote", "finish", "create", "raw"}, node : Nodes \cup {""},
            branch : Branches \cup {Detached}, expected : SUBSET (0..MaxCommits),
            tries : 0..MaxRetries, force : BOOLEAN, walk : Seq(Nodes), seen : SUBSET Nodes,
            held : SUBSET Nodes, text : Seq(Invocations), unheard : BOOLEAN, rc : 0..2]

World ==
  /\ checkout \in Branches \cup {Detached}
  /\ local \in [Branches -> SUBSET (0..MaxCommits)]
  /\ track \in [Branches -> SUBSET (0..MaxCommits)]
  /\ remote \in [Branches -> SUBSET (0..MaxCommits)]
  /\ pr \in [Branches -> {"none", "draft", "ready", "merged", "closed", "closed draft"}]
  /\ rollup \in [Branches -> Rollups]
  /\ review \in [Branches -> Unreviewed \cup {"APPROVED", "CHANGES_REQUESTED"}]
  /\ commits \in 0..MaxCommits

Listed(q) == {q[i] : i \in DOMAIN q}

\* What check has seen answered yes, all but the node asked about, and what it needs is
\* among it or ahead.
Asked(c) ==
  /\ c.verb = "check" /\ c.node \in Nodes
  /\ IF c.seen = {} THEN c.walk = <<c.node>> /\ c.held = {}
     ELSE /\ c.seen = {c.node} \cup c.held
          /\ \A m \in c.seen : Direct(m) \subseteq c.held \cup Listed(c.walk)

\* No invocation of a text pushes; so it is where push_branch.sh is installed.
PushWrapped    == "push_branch.sh" \in Wrappers
Harmless(text) == PushWrapped => \A i \in DOMAIN text : text[i] \notin {"push", "push trunk"}

\* The command of a session at a step.
SoundAt(step, c) ==
  /\ step = "walk" => Asked(c)
  /\ step = "done" /\ c.verb = "check" /\ c.rc = 0 => Asked(c) /\ c.seen # {} /\ c.walk = <<>>
  /\ step \notin {"idle", "walk", "raw", "done"} => c.verb \in {"push", "promote", "finish", "create"}
  /\ step \notin {"idle", "walk", "raw", "done", "detect", "resolve"} => c.branch \in Branches
  /\ step \in {"push", "verify"} => c.branch # Trunk
  /\ step = "raw" => /\ c.verb = "raw" /\ c.text # <<>>
                     /\ c.unheard \/ Harmless(c.text)

IInv ==
  /\ World /\ at \in [Sessions -> Places] /\ cmd \in [Sessions -> Command]
  /\ \A s \in Sessions : SoundAt(at[s], cmd[s])

-----------------------------------------------------------------------------
(* The steps of a session. *)

\* A node's prerequisites are nodes.
LEMMA GraphTyped == \A n \in Nodes : GRAPH[n] \in Seq(Nodes)
  <1> SUFFICES ASSUME NEW n \in Nodes PROVE GRAPH[n] \in Seq(Nodes)
    OBVIOUS
  <1>1. Nodes = {"issue.created", "branch.created", "branch.pushed", "pr.opened",
                 "ci.green", "review.approved", "pr.merged"}
    BY DEF Nodes, GRAPH
  <1>2. CASE n = "branch.pushed"
    BY <1>1, <1>2 DEF GRAPH
  <1>3. CASE n = "pr.opened"
    BY <1>1, <1>3 DEF GRAPH
  <1>4. CASE n \in {"ci.green", "review.approved"}
    BY <1>1, <1>4 DEF GRAPH
  <1>5. CASE n = "pr.merged"
    BY <1>1, <1>5 DEF GRAPH
  <1>6. CASE n \in {"issue.created", "branch.created"}
    BY <1>1, <1>6 DEF GRAPH
  <1> QED
    BY <1>1, <1>2, <1>3, <1>4, <1>5, <1>6

\* What a sequence lists is its head or listed in its tail.
LEMMA TailLists ==
  ASSUME NEW q \in Seq(Nodes), q # <<>>
  PROVE  Head(q) \in Nodes /\ Tail(q) \in Seq(Nodes) /\ Listed(q) \subseteq {Head(q)} \cup Listed(Tail(q))
  <1>1. ASSUME NEW i \in DOMAIN q, i # 1
        PROVE  i - 1 \in DOMAIN Tail(q) /\ Tail(q)[i - 1] = q[i]
    <2>1. i \in Nat
      OBVIOUS
    <2> QED
      BY <1>1, <2>1
  <1>2. Head(q) \in Nodes /\ Tail(q) \in Seq(Nodes) /\ Head(q) = q[1]
    OBVIOUS
  <1>3. ASSUME NEW i \in DOMAIN q
        PROVE  q[i] = Head(q) \/ \E j \in DOMAIN Tail(q) : q[i] = Tail(q)[j]
    <2>1. CASE i = 1
      BY <1>2, <2>1
    <2>2. CASE i # 1
      BY <1>1, <2>2
    <2> QED
      BY <2>1, <2>2
  <1> QED
    BY <1>2, <1>3 DEF Listed

\* What two sequences list is listed in their concatenation.
LEMMA ConcatLists ==
  ASSUME NEW q \in Seq(Nodes), NEW r \in Seq(Nodes)
  PROVE  q \o r \in Seq(Nodes) /\ Listed(q) \subseteq Listed(q \o r) /\ Listed(r) \subseteq Listed(q \o r)
  <1>1. ASSUME NEW i \in DOMAIN q
        PROVE  i \in DOMAIN (q \o r) /\ (q \o r)[i] = q[i]
    <2>1. i \in Nat
      OBVIOUS
    <2> QED
      BY <1>1, <2>1
  <1>2. ASSUME NEW i \in DOMAIN r
        PROVE  Len(q) + i \in DOMAIN (q \o r) /\ (q \o r)[Len(q) + i] = r[i]
    <2>1. i \in Nat
      OBVIOUS
    <2> QED
      BY <1>2, <2>1
  <1>3. q \o r \in Seq(Nodes)
    OBVIOUS
  <1> QED
    BY <1>1, <1>2, <1>3 DEF Listed

\* A session that takes one step keeps the invariant when its own command is sound.
LEMMA SessionGoes ==
  ASSUME IInv, NEW s \in Sessions, NEW step \in Places, NEW c \in Command,
         GoWith(s, step, c), SoundAt(step, c), World'
  PROVE  IInv'
  <1>1. at' \in [Sessions -> Places] /\ cmd' \in [Sessions -> Command]
    BY DEF IInv, GoWith
  <1>2. ASSUME NEW q \in Sessions PROVE SoundAt(at'[q], cmd'[q])
    <2>1. CASE q = s
      BY <2>1 DEF IInv, GoWith
    <2>2. CASE q # s
      BY <2>2 DEF IInv, GoWith
    <2> QED
      BY <2>1, <2>2
  <1> QED
    BY <1>1, <1>2 DEF IInv

\* The same when its command stays as it is.
LEMMA SessionGoesOn ==
  ASSUME IInv, NEW s \in Sessions, NEW step \in Places, Go(s, step), SoundAt(step, cmd[s]), World'
  PROVE  IInv'
  <1>1. GoWith(s, step, cmd[s]) /\ cmd[s] \in Command
    BY DEF IInv, Go, GoWith
  <1> QED
    BY <1>1, SessionGoes

\* A command that fails, or succeeds and is not check.
LEMMA SessionReturns ==
  ASSUME IInv, NEW s \in Sessions, NEW rc \in 0..2, Return(s, rc), World',
         rc # 0 \/ cmd[s].verb # "check"
  PROVE  IInv'
  <1> DEFINE c == [cmd[s] EXCEPT !.rc = rc]
  <1>1. c \in Command /\ c.verb = cmd[s].verb /\ c.rc = rc
    BY DEF IInv, Command
  <1>2. GoWith(s, "done", c) /\ "done" \in Places
    BY DEF Return, Places
  <1> HIDE DEF c
  <1>3. SoundAt("done", c)
    BY <1>1 DEF SoundAt
  <1> QED
    BY <1>1, <1>2, <1>3, SessionGoes

\* A command begins sound.
LEMMA CommandsBegin ==
  ASSUME IInv, NEW s \in Sessions,
         Check(s) \/ PushVerb(s) \/ PromoteVerb(s) \/ FinishVerb(s) \/ CreateVerb(s)
  PROVE  IInv'
  <1>0. ASSUME NEW step \in Places, NEW c \in Command, Begin(s, step, c), SoundAt(step, c)
        PROVE  IInv'
    <2>1. World'
      BY <1>0 DEF IInv, World, Begin, repo, forge
    <2> QED
      BY <1>0, <2>1, SessionGoes DEF Begin
  <1>1. /\ NoCommand \in Command /\ NoCommand.seen = {} /\ NoCommand.held = {}
        /\ checkout \in Branches \cup {Detached}
    <2>1. <<>> \in Seq(Nodes) /\ <<>> \in Seq(Invocations) /\ MaxRetries \in Nat
      BY LifecycleAssumption
    <2>2. NoCommand \in Command
      BY <2>1 DEF NoCommand, Command
    <2> QED
      BY <2>2 DEF NoCommand, IInv, World
  <1>2. CASE Check(s)
    <2>1. PICK n \in Nodes :
            Begin(s, "walk", [NoCommand EXCEPT !.verb = "check", !.node = n, !.walk = <<n>>])
      BY <1>2 DEF Check
    <2> DEFINE c == [NoCommand EXCEPT !.verb = "check", !.node = n, !.walk = <<n>>]
    <2>2. <<n>> \in Seq(Nodes)
      OBVIOUS
    <2>3. /\ c \in Command /\ c.verb = "check" /\ c.node = n /\ c.walk = <<n>>
          /\ c.seen = {} /\ c.held = {}
      BY <1>1, <2>2 DEF Command
    <2> HIDE DEF c
    <2>4. SoundAt("walk", c) /\ "walk" \in Places
      BY <2>3 DEF SoundAt, Asked, Places
    <2> QED
      BY <1>0, <2>1, <2>3, <2>4 DEF c
  <1>3. CASE PushVerb(s)
    <2>1. PICK b \in Branches \cup {checkout}, force \in BOOLEAN :
            Begin(s, "resolve", [NoCommand EXCEPT !.verb = "push", !.branch = b, !.force = force])
      BY <1>3 DEF PushVerb
    <2> DEFINE c == [NoCommand EXCEPT !.verb = "push", !.branch = b, !.force = force]
    <2>3. c \in Command /\ c.verb = "push"
      BY <1>1 DEF Command
    <2> HIDE DEF c
    <2>4. SoundAt("resolve", c) /\ "resolve" \in Places
      BY <2>3 DEF SoundAt, Asked, Places
    <2> QED
      BY <1>0, <2>1, <2>3, <2>4 DEF c
  <1>4. ASSUME NEW verb \in {"promote", "finish"}, NEW b \in Branches, NEW step \in {"view", "head"},
               Begin(s, step, [NoCommand EXCEPT !.verb = verb, !.branch = b])
        PROVE  IInv'
    <2> DEFINE c == [NoCommand EXCEPT !.verb = verb, !.branch = b]
    <2>3. c \in Command /\ c.verb = verb /\ c.branch = b
      BY <1>1 DEF Command
    <2> HIDE DEF c
    <2>4. SoundAt(step, c) /\ step \in Places
      BY <2>3 DEF SoundAt, Asked, Places
    <2> QED
      BY <1>0, <1>4, <2>3, <2>4 DEF c
  <1>5. ASSUME NEW verb \in {"promote", "finish"}, Begin(s, "detect", [NoCommand EXCEPT !.verb = verb])
        PROVE  IInv'
    <2> DEFINE c == [NoCommand EXCEPT !.verb = verb]
    <2>3. c \in Command /\ c.verb = verb
      BY <1>1 DEF Command
    <2> HIDE DEF c
    <2>4. SoundAt("detect", c) /\ "detect" \in Places
      BY <2>3 DEF SoundAt, Asked, Places
    <2> QED
      BY <1>0, <1>5, <2>3, <2>4 DEF c
  <1>6. CASE CreateVerb(s)
    <2>1. PICK b \in Branches \ {Trunk} :
            Begin(s, IF b = checkout THEN "resolve" ELSE "choose",
                  [NoCommand EXCEPT !.verb = "create", !.branch = b])
      BY <1>6 DEF CreateVerb
    <2> DEFINE c == [NoCommand EXCEPT !.verb = "create", !.branch = b]
               step == IF b = checkout THEN "resolve" ELSE "choose"
    <2>3. c \in Command /\ c.verb = "create" /\ c.branch = b
      BY <1>1 DEF Command
    <2>4. step \in {"resolve", "choose"} /\ Begin(s, step, c)
      BY <2>1
    <2> HIDE DEF c, step
    <2>5. SoundAt(step, c) /\ step \in Places
      BY <2>3, <2>4 DEF SoundAt, Asked, Places
    <2> QED
      BY <1>0, <2>3, <2>4, <2>5
  <1> QED
    BY <1>2, <1>3, <1>4, <1>5, <1>6 DEF PromoteVerb, FinishVerb

\* A visit puts a node's prerequisites ahead of what is left.
LEMMA VisitAsks ==
  ASSUME NEW c \in Command, Asked(c), c.walk # <<>>,
         NEW e \in Command, e.node = c.node, e.verb = c.verb, e.walk = c.walk, e.seen = c.seen,
         NEW n, n = Head(c.walk), e.held = IF c.seen = {} THEN c.held ELSE c.held \cup {n}
  PROVE  AfterVisit(e, n) \in Command /\ Asked(AfterVisit(e, n)) /\ AfterVisit(e, n).seen # {}
  <1>0. c.walk \in Seq(Nodes) /\ e.walk \in Seq(Nodes) /\ c.seen \subseteq Nodes /\ c.held \subseteq Nodes
    BY DEF Command
  <1>1. n \in Nodes /\ Tail(e.walk) \in Seq(Nodes) /\ GRAPH[n] \in Seq(Nodes)
    BY <1>0, GraphTyped, TailLists
  <1>2. Listed(c.walk) \subseteq {n} \cup Listed(Tail(c.walk))
    BY <1>0, TailLists
  <1>3. CASE n \in e.seen
    <2> DEFINE v == [e EXCEPT !.walk = Tail(@)]
    <2>1. /\ v \in Command /\ v.walk = Tail(c.walk) /\ v.seen = c.seen /\ v.node = c.node
          /\ v.verb = c.verb /\ v.held = e.held
      BY <1>1 DEF Command
    <2>2. AfterVisit(e, n) = v
      BY <1>3 DEF AfterVisit
    <2> HIDE DEF v
    <2> QED
      BY <1>2, <1>3, <2>1, <2>2 DEF Asked
  <1>4. CASE n \notin e.seen
    <2> DEFINE v == [e EXCEPT !.walk = GRAPH[n] \o Tail(@), !.seen = @ \cup {n}]
               ahead == GRAPH[n] \o Tail(e.walk)
    <2>0. ahead \in Seq(Nodes) /\ e.seen \cup {n} \in SUBSET Nodes
      BY <1>0, <1>1, ConcatLists
    <2>1. /\ v \in Command /\ v.walk = ahead /\ v.seen = c.seen \cup {n} /\ v.node = c.node
          /\ v.verb = c.verb /\ v.held = e.held
      BY <2>0 DEF Command
    <2>2. AfterVisit(e, n) = v
      BY <1>4 DEF AfterVisit
    <2>3. Direct(n) \subseteq Listed(ahead) /\ Listed(Tail(c.walk)) \subseteq Listed(ahead)
      <3>1. Direct(n) = Listed(GRAPH[n])
        BY DEF Direct, Listed
      <3> QED
        BY <1>1, <3>1, ConcatLists
    <2> HIDE DEF v, ahead
    <2>5. CASE c.seen = {}
      <3>1. n = c.node /\ v.seen = {n} /\ v.held = {}
        BY <2>1, <2>5 DEF Asked
      <3> QED
        BY <2>1, <2>2, <2>3, <2>5, <3>1 DEF Asked
    <2>6. CASE c.seen # {}
      <3>1. v.held = c.held \cup {n} /\ v.seen = {c.node} \cup v.held
        BY <2>1, <2>6 DEF Asked
      <3>2. ASSUME NEW m \in c.seen PROVE Direct(m) \subseteq v.held \cup Listed(ahead)
        BY <1>2, <2>3, <2>6, <3>1 DEF Asked
      <3> QED
        BY <2>1, <2>2, <2>3, <2>6, <3>1, <3>2 DEF Asked
    <2> QED
      BY <2>5, <2>6
  <1> QED
    BY <1>3, <1>4

\* check.
LEMMA WalkSound ==
  ASSUME IInv, NEW s \in Sessions, Walk(s)
  PROVE  IInv'
  <1> DEFINE c == cmd[s]  n == Head(c.walk)
  <1>0. /\ c \in Command /\ Asked(c) /\ World'
        /\ "walk" \in Places /\ "done" \in Places
    BY DEF IInv, SoundAt, Walk, World, repo, forge, Still, Places
  <1>1. CASE c.walk = <<>>
    <2> DEFINE d == [c EXCEPT !.rc = 0]
    <2>0. 0 \in 0..2
      OBVIOUS
    <2>1. /\ d \in Command /\ d.node = c.node /\ d.verb = c.verb /\ d.walk = c.walk
          /\ d.seen = c.seen /\ d.held = c.held
      BY <1>0, <2>0 DEF Command
    <2>2. GoWith(s, "done", d)
      BY <1>1 DEF Walk, Return
    <2>3. <<c.node>> # <<>>
      OBVIOUS
    <2> HIDE DEF d
    <2>4. Asked(d) /\ d.seen # {} /\ d.walk = <<>>
      BY <1>0, <1>1, <2>1, <2>3 DEF Asked
    <2>5. SoundAt("done", d)
      BY <2>4 DEF SoundAt
    <2> QED
      BY <1>0, <2>1, <2>2, <2>5, SessionGoes
  <1>2. ASSUME c.walk # <<>>, NEW e \in Command, e.node = c.node, e.verb = c.verb, e.walk = c.walk,
               e.seen = c.seen, e.held = IF c.seen = {} THEN c.held ELSE c.held \cup {n},
               GoWith(s, "walk", AfterVisit(e, n))
        PROVE  IInv'
    <2>1. AfterVisit(e, n) \in Command /\ Asked(AfterVisit(e, n))
      BY <1>0, <1>2, VisitAsks
    <2>2. SoundAt("walk", AfterVisit(e, n))
      BY <2>1 DEF SoundAt
    <2> QED
      BY <1>0, <1>2, <2>1, <2>2, SessionGoes
  <1>3. CASE c.walk # <<>> /\ c.seen = {}
    BY <1>0, <1>2, <1>3 DEF Walk
  <1>4. CASE c.walk # <<>> /\ c.seen # {}
    <2>1. CASE Return(s, 2)
      BY <1>0, <2>1, SessionReturns
    <2>2. CASE GoWith(s, "walk", AfterVisit([c EXCEPT !.held = @ \cup {n}], n))
      <3> DEFINE e == [c EXCEPT !.held = @ \cup {n}]
      <3>0. n \in Nodes
        <4>1. c.walk \in Seq(Nodes)
          BY <1>0 DEF Command
        <4> QED
          BY <1>4, <4>1, TailLists
      <3>1. /\ e \in Command /\ e.node = c.node /\ e.verb = c.verb /\ e.walk = c.walk
            /\ e.seen = c.seen /\ e.held = c.held \cup {n}
        BY <1>0, <3>0 DEF Command
      <3> HIDE DEF e
      <3> QED
        BY <1>2, <1>4, <2>2, <3>1 DEF e
    <2> QED
      BY <1>4, <2>1, <2>2 DEF Walk
  <1> QED
    BY <1>1, <1>3, <1>4

\* A verb that goes on, ends, or does what comes after a push or a promotion.
LEMMA PushedSound ==
  ASSUME IInv, NEW s \in Sessions, at[s] \in {"push", "verify"}, Pushed(s), World'
  PROVE  IInv'
  <1>1. cmd[s].verb \in {"push", "promote", "finish", "create"} /\ cmd[s].branch \in Branches
    BY DEF IInv, SoundAt
  <1>2. 0 \in 0..2
    OBVIOUS
  <1>3. CASE cmd[s].verb = "push"
    BY <1>1, <1>2, <1>3, SessionReturns DEF Pushed
  <1>4. CASE cmd[s].verb # "push"
    <2>1. PICK step \in {"view", "existing"} : Go(s, step)
      BY <1>4 DEF Pushed
    <2>2. step \in Places /\ SoundAt(step, cmd[s])
      BY <1>1 DEF Places, SoundAt
    <2> QED
      BY <2>1, <2>2, SessionGoesOn
  <1> QED
    BY <1>3, <1>4

\* promote ends, finish goes on to the monitor.
LEMMA PromotedSound ==
  ASSUME IInv, NEW s \in Sessions, at[s] \in {"view", "ready"}, Promoted(s), World'
  PROVE  IInv'
  <1>1. cmd[s].verb \in {"push", "promote", "finish", "create"} /\ cmd[s].branch \in Branches
    BY DEF IInv, SoundAt
  <1>2. 0 \in 0..2
    OBVIOUS
  <1>3. CASE cmd[s].verb # "finish"
    BY <1>1, <1>2, <1>3, SessionReturns DEF Promoted
  <1>4. CASE cmd[s].verb = "finish"
    <2>1. Go(s, "monitor") /\ "monitor" \in Places /\ SoundAt("monitor", cmd[s])
      BY <1>1, <1>4 DEF Promoted, Places, SoundAt
    <2> QED
      BY <2>1, SessionGoesOn
  <1> QED
    BY <1>3, <1>4

\* A verb that fails.
LEMMA FailureSound ==
  ASSUME IInv, NEW s \in Sessions, Return(s, 1), World'
  PROVE  IInv'
  <1>1. 1 \in 0..2 /\ 1 # 0
    OBVIOUS
  <1> QED
    BY <1>1, SessionReturns

\* push.
LEMMA ResolveSound ==
  ASSUME IInv, NEW s \in Sessions, Resolve(s)
  PROVE  IInv'
  <1> DEFINE c == cmd[s]
  <1>0. /\ World' /\ at[s] = "resolve" /\ c \in Command
        /\ c.verb \in {"push", "promote", "finish", "create"} /\ local \in [Branches -> SUBSET (0..MaxCommits)]
    BY DEF IInv, SoundAt, Resolve, World, repo, forge, Still
  <1>1. CASE Return(s, 1)
    BY <1>0, <1>1, FailureSound
  <1>2. CASE ~Return(s, 1)
    <2> DEFINE d == [c EXCEPT !.expected = local[c.branch]]
    <2>1. c.branch \notin {Detached, Trunk} /\ GoWith(s, "push", d)
      BY <1>2 DEF Resolve
    <2>2. c.branch \in Branches /\ local[c.branch] \in SUBSET (0..MaxCommits)
      BY <1>0, <2>1 DEF Command
    <2>3. d \in Command /\ d.verb = c.verb /\ d.branch = c.branch
      BY <1>0, <2>2 DEF Command
    <2> HIDE DEF d
    <2>4. SoundAt("push", d) /\ "push" \in Places
      BY <1>0, <2>1, <2>2, <2>3 DEF SoundAt, Places
    <2> QED
      BY <1>0, <2>1, <2>3, <2>4, SessionGoes
  <1> QED
    BY <1>1, <1>2

\* The push itself, and the look at origin after one that failed.
LEMMA PushSound ==
  ASSUME IInv, NEW s \in Sessions, Push(s)
  PROVE  IInv'
  <1> DEFINE c == cmd[s]  b == c.branch
  <1>0. /\ at[s] = "push" /\ RefPushed(c) = b /\ b \in Branches
        /\ c.verb \in {"push", "promote", "finish", "create"} /\ b # Trunk
    BY DEF IInv, SoundAt, Push, RefPushed
  <1>1. PICK arrives \in BOOLEAN, ok \in BOOLEAN :
          /\ remote' = IF arrives THEN [remote EXCEPT ![b] = local[b]] ELSE remote
          /\ rollup' = IF arrives /\ remote[b] # local[b] THEN [rollup EXCEPT ![b] = {}] ELSE rollup
          /\ track'  = IF ok THEN [track EXCEPT ![b] = local[b]] ELSE track
          /\ IF ok THEN Pushed(s) ELSE Go(s, "verify")
    BY <1>0 DEF Push
  <1>2. World'
    <2>1. UNCHANGED <<checkout, local, pr, review, commits>> /\ {} \in Rollups
      BY DEF Push, Still, Rollups
    <2>2. local[b] \in SUBSET (0..MaxCommits)
      BY <1>0 DEF IInv, World
    <2>3. remote' \in [Branches -> SUBSET (0..MaxCommits)]
      BY <1>1, <2>2 DEF IInv, World
    <2>4. track' \in [Branches -> SUBSET (0..MaxCommits)]
      BY <1>1, <2>2 DEF IInv, World
    <2>5. rollup' \in [Branches -> Rollups]
      BY <1>1, <2>1 DEF IInv, World
    <2> QED
      BY <2>1, <2>3, <2>4, <2>5 DEF IInv, World
  <1>3. CASE ok
    BY <1>0, <1>1, <1>2, <1>3, PushedSound
  <1>4. CASE ~ok
    <2>1. SoundAt("verify", c) /\ "verify" \in Places
      BY <1>0 DEF SoundAt, Places
    <2> QED
      BY <1>1, <1>2, <1>4, <2>1, SessionGoesOn
  <1> QED
    BY <1>3, <1>4

\* A retry, or what the push was for.
LEMMA VerifySound ==
  ASSUME IInv, NEW s \in Sessions, Verify(s)
  PROVE  IInv'
  <1> DEFINE c == cmd[s]
  <1>0. /\ at[s] = "verify" /\ World' /\ c \in Command /\ c.branch \in Branches
        /\ c.verb \in {"push", "promote", "finish", "create"} /\ c.branch # Trunk
    BY DEF IInv, SoundAt, Verify, World, repo, forge, Still
  <1>1. CASE Pushed(s)
    BY <1>0, <1>1, PushedSound
  <1>2. CASE Return(s, 1)
    BY <1>0, <1>2, FailureSound
  <1>3. CASE c.tries < MaxRetries /\ GoWith(s, "push", [c EXCEPT !.tries = @ + 1])
    <2> DEFINE d == [c EXCEPT !.tries = @ + 1]
    <2>1. c.tries + 1 \in 0..MaxRetries
      <3>1. MaxRetries \in Nat
        BY LifecycleAssumption
      <3>2. c.tries \in 0..MaxRetries
        BY <1>0 DEF Command
      <3> QED
        BY <1>3, <3>1, <3>2
    <2>2. d \in Command /\ d.verb = c.verb /\ d.branch = c.branch
      BY <1>0, <2>1 DEF Command
    <2> HIDE DEF d
    <2>3. SoundAt("push", d) /\ "push" \in Places
      BY <1>0, <2>2 DEF SoundAt, Places
    <2> QED
      BY <1>0, <1>3, <2>2, <2>3, SessionGoes DEF d
  <1> QED
    BY <1>1, <1>2, <1>3 DEF Verify

\* promote and finish.
LEMMA DetectSound ==
  ASSUME IInv, NEW s \in Sessions, Detect(s)
  PROVE  IInv'
  <1> DEFINE c == cmd[s]
  <1>0. /\ World' /\ c \in Command /\ c.verb \in {"push", "promote", "finish", "create"}
        /\ checkout \in Branches \cup {Detached}
    BY DEF IInv, SoundAt, Detect, World, repo, forge, Still
  <1>1. CASE Return(s, 1)
    BY <1>0, <1>1, FailureSound
  <1>2. CASE ~Return(s, 1)
    <2> DEFINE d == [c EXCEPT !.branch = checkout]
    <2>1. PICK step \in {"head", "view"} : GoWith(s, step, d)
      BY <1>2 DEF Detect
    <2>2. checkout \in Branches
      BY <1>0, <1>2 DEF Detect, Here
    <2>3. d \in Command /\ d.verb = c.verb /\ d.branch = checkout
      BY <1>0, <2>2 DEF Command
    <2> HIDE DEF d
    <2>4. SoundAt(step, d) /\ step \in Places
      BY <1>0, <2>2, <2>3 DEF SoundAt, Places
    <2> QED
      BY <1>0, <2>1, <2>3, <2>4, SessionGoes
  <1> QED
    BY <1>1, <1>2

\* The questions of finish, and of promote.
LEMMA FinishSound ==
  ASSUME IInv, NEW s \in Sessions, HeadOf(s) \/ Current(s) \/ View(s)
  PROVE  IInv'
  <1>0. /\ World' /\ at[s] \in {"head", "current", "view"} /\ cmd[s].branch \in Branches
        /\ cmd[s].verb \in {"push", "promote", "finish", "create"}
    BY DEF IInv, SoundAt, HeadOf, Current, View, World, repo, forge, Still
  <1>1. CASE Return(s, 1)
    BY <1>0, <1>1, FailureSound
  <1>2. ASSUME NEW step \in {"current", "resolve", "ready"}, Go(s, step)
        PROVE  IInv'
    <2>1. step \in Places /\ SoundAt(step, cmd[s])
      BY <1>0 DEF Places, SoundAt
    <2> QED
      BY <1>0, <1>2, <2>1, SessionGoesOn
  <1>3. CASE at[s] = "view" /\ Promoted(s)
    BY <1>0, <1>3, PromotedSound
  <1> QED
    BY <1>1, <1>2, <1>3 DEF HeadOf, Current, View

\* The PR is promoted, or cannot be.
LEMMA ReadySound ==
  ASSUME IInv, NEW s \in Sessions, Ready(s)
  PROVE  IInv'
  <1> DEFINE b == cmd[s].branch
  <1>0. /\ at[s] = "ready" /\ b \in Branches /\ UNCHANGED <<checkout, local, track, remote, rollup, review, commits>>
    BY DEF IInv, SoundAt, Ready, repo, Still
  <1>1. CASE pr' = [pr EXCEPT ![b] = "ready"] /\ Promoted(s)
    <2>1. World'
      BY <1>0, <1>1 DEF IInv, World
    <2> QED
      BY <1>0, <1>1, <2>1, PromotedSound
  <1>2. CASE Return(s, 1) /\ UNCHANGED pr
    <2>1. World'
      BY <1>0, <1>2 DEF IInv, World
    <2> QED
      BY <1>2, <2>1, FailureSound
  <1> QED
    BY <1>1, <1>2 DEF Ready

\* What a merge makes of origin is made of commits.
LEMMA MergedTyped ==
  ASSUME IInv, NEW b \in Branches, NEW goes \in BOOLEAN
  PROVE  /\ Merged(b, goes) \in [Branches -> SUBSET (0..MaxCommits)]
         /\ Merged(b, goes)[Trunk] = remote[Trunk] \cup remote[b]
  <1>1. Trunk \in Branches /\ remote \in [Branches -> SUBSET (0..MaxCommits)]
    BY LifecycleAssumption DEF IInv, World
  <1> QED
    BY <1>1 DEF Merged

\* A merge leaves branches and PRs of their kinds.
LEMMA MergeTyped ==
  ASSUME IInv, NEW b \in Branches, MergePr(b), UNCHANGED <<review, commits>>, rollup' = rollup
  PROVE  /\ World' /\ pr[b] = "ready" /\ pr'[b] = "merged"
         /\ remote'[Trunk] = remote[Trunk] \cup remote[b]
  <1>0. Trunk \in Branches
    BY LifecycleAssumption
  <1>1. PICK goes \in BOOLEAN, tidy \in BOOLEAN :
          /\ pr[b] = "ready" /\ pr' = [pr EXCEPT ![b] = "merged"] /\ remote' = Merged(b, goes)
          /\ \/ /\ checkout' \in {Trunk, checkout}
                /\ \E l, k \in {TRUE, FALSE} :
                     /\ local' = [local EXCEPT ![b] = {}, ![Trunk] = IF l THEN remote'[Trunk] ELSE @]
                     /\ track' = [track EXCEPT ![b] = {}, ![Trunk] = IF k THEN remote'[Trunk] ELSE @]
             \/ UNCHANGED <<checkout, local, track>>
    <2>1. PICK goes \in BOOLEAN, tidy \in BOOLEAN :
            /\ pr[b] = "ready" /\ pr' = [pr EXCEPT ![b] = "merged"] /\ remote' = Merged(b, goes)
            /\ IF tidy /\ b # Trunk
               THEN LET leaves == checkout = b
                        pulls  == leaves /\ local[Trunk] \subseteq remote'[Trunk] IN
                    /\ checkout' = IF leaves THEN Trunk ELSE checkout
                    /\ local' = [local EXCEPT ![b] = {}, ![Trunk] = IF pulls THEN remote'[Trunk] ELSE @]
                    /\ track' = [track EXCEPT ![b] = {}, ![Trunk] = IF pulls THEN remote'[Trunk] ELSE @]
               ELSE UNCHANGED <<checkout, local, track>>
      BY DEF MergePr
    <2>2. CASE checkout = b /\ local[Trunk] \subseteq remote'[Trunk]
      BY <2>1, <2>2
    <2>3. CASE ~(checkout = b /\ local[Trunk] \subseteq remote'[Trunk])
      BY <2>1, <2>3
    <2> QED
      BY <2>2, <2>3
  <1>2. /\ remote' \in [Branches -> SUBSET (0..MaxCommits)]
        /\ remote'[Trunk] = remote[Trunk] \cup remote[b]
    BY <1>1, MergedTyped
  <1>3. pr' \in [Branches -> {"none", "draft", "ready", "merged", "closed", "closed draft"}]
        /\ pr'[b] = "merged"
    BY <1>1 DEF IInv, World
  <1>4. remote'[Trunk] \in SUBSET (0..MaxCommits) /\ {} \in SUBSET (0..MaxCommits)
    BY <1>0, <1>2
  <1>5. /\ local' \in [Branches -> SUBSET (0..MaxCommits)]
        /\ track' \in [Branches -> SUBSET (0..MaxCommits)]
    BY <1>0, <1>1, <1>4 DEF IInv, World
  <1>6. checkout' \in Branches \cup {Detached}
    BY <1>0, <1>1 DEF IInv, World
  <1> QED
    BY <1>1, <1>2, <1>3, <1>5, <1>6 DEF IInv, World

\* The monitor waits for CI and the review, or gives up.
LEMMA MonitorSound ==
  ASSUME IInv, NEW s \in Sessions, Monitor(s) \/ Review(s)
  PROVE  IInv'
  <1> DEFINE b == cmd[s].branch
  <1>0. /\ at[s] \in {"monitor", "review"} /\ b \in Branches /\ World' /\ cmd[s] \in Command
        /\ cmd[s].verb \in {"push", "promote", "finish", "create"}
    <2>1. at[s] \in {"monitor", "review"} /\ World'
      BY DEF Monitor, Review, IInv, World, repo, forge, Still
    <2>2. SoundAt(at[s], cmd[s]) /\ cmd[s] \in Command
      BY DEF IInv
    <2> QED
      BY <2>1, <2>2 DEF SoundAt
  <1>1. ASSUME NEW rc \in {1, 2}, Return(s, rc) PROVE IInv'
    <2>1. rc \in 0..2 /\ rc # 0
      OBVIOUS
    <2> QED
      BY <1>0, <1>1, <2>1, SessionReturns
  <1>2. ASSUME NEW step \in {"review", "merge", "admin"}, Go(s, step) PROVE IInv'
    <2>1. step \in Places /\ SoundAt(step, cmd[s])
      BY <1>0 DEF Places, SoundAt
    <2> QED
      BY <1>0, <1>2, <2>1, SessionGoesOn
  <1>3. CASE Monitor(s)
    BY <1>1, <1>2, <1>3 DEF Monitor
  <1>4. CASE Review(s)
    BY <1>1, <1>2, <1>4 DEF Review
  <1> QED
    BY <1>3, <1>4

\* It merges, or does not.
LEMMA MergeSound ==
  ASSUME IInv, NEW s \in Sessions, Merge(s)
  PROVE  IInv'
  <1> DEFINE b == cmd[s].branch
  <1>0. /\ at[s] \in {"merge", "admin"} /\ b \in Branches /\ cmd[s].verb # "check"
        /\ 0 \in 0..2 /\ UNCHANGED <<rollup, review, commits>>
    <2>1. at[s] \in {"merge", "admin"} /\ UNCHANGED <<rollup, review, commits>>
      BY DEF Merge, Still
    <2>2. SoundAt(at[s], cmd[s]) /\ 0 \in 0..2
      BY DEF IInv
    <2> QED
      BY <2>1, <2>2 DEF SoundAt
  <1>1. CASE MergePr(b) /\ Return(s, 0)
    <2>1. World'
      BY <1>0, <1>1, MergeTyped
    <2> QED
      BY <1>0, <1>1, <2>1, SessionReturns
  <1>2. CASE UNCHANGED <<repo, pr>> /\ (Return(s, 0) \/ Return(s, 1))
    <2>1. World'
      BY <1>0, <1>2 DEF IInv, World, repo
    <2> QED
      BY <1>0, <1>2, <2>1, SessionReturns, FailureSound
  <1> QED
    BY <1>1, <1>2 DEF Merge

\* create-pr-nojira.
LEMMA CreateSound ==
  ASSUME IInv, NEW s \in Sessions, Choose(s) \/ Existing(s) \/ OpenPr(s)
  PROVE  IInv'
  <1> DEFINE b == cmd[s].branch
  <1>0. /\ at[s] \in {"choose", "existing", "open"} /\ b \in Branches /\ 0 \in 0..2
        /\ cmd[s].verb \in {"push", "promote", "finish", "create"}
    <2>1. at[s] \in {"choose", "existing", "open"}
      BY DEF Choose, Existing, OpenPr
    <2>2. SoundAt(at[s], cmd[s]) /\ 0 \in 0..2
      BY DEF IInv
    <2> QED
      BY <2>1, <2>2 DEF SoundAt
  <1>1. CASE Choose(s)
    <2>1. /\ Go(s, "resolve") /\ UNCHANGED <<track, remote, pr, rollup, review, commits>>
          /\ checkout' \in {b, checkout}
          /\ \/ UNCHANGED local
             \/ local' = [local EXCEPT ![b] = IF Here THEN local[checkout] ELSE {0}]
      BY <1>1 DEF Choose, forge, Still
    <2>2. MaxCommits \in Nat
      BY LifecycleAssumption
    <2>3. {0} \subseteq 0..MaxCommits
      BY <2>2
    <2>4. (IF Here THEN local[checkout] ELSE {0}) \in SUBSET (0..MaxCommits)
      BY <2>3 DEF IInv, World, Here
    <2>5. local' \in [Branches -> SUBSET (0..MaxCommits)]
      BY <2>1, <2>4 DEF IInv, World
    <2>6. World'
      BY <1>0, <2>1, <2>5 DEF IInv, World
    <2>7. "resolve" \in Places /\ SoundAt("resolve", cmd[s])
      BY <1>0 DEF Places, SoundAt
    <2> QED
      BY <2>1, <2>6, <2>7, SessionGoesOn
  <1>2. CASE Existing(s)
    <2>1. World'
      BY <1>2 DEF IInv, World, Existing, repo, forge, Still
    <2>2. CASE Return(s, 0)
      BY <1>0, <2>1, <2>2, SessionReturns
    <2>3. CASE Go(s, "open")
      <3>1. "open" \in Places /\ SoundAt("open", cmd[s])
        BY <1>0 DEF Places, SoundAt
      <3> QED
        BY <2>1, <2>3, <3>1, SessionGoesOn
    <2> QED
      BY <1>2, <2>2, <2>3 DEF Existing
  <1>3. CASE OpenPr(s)
    <2>1. UNCHANGED <<checkout, local, track, remote, rollup, commits>>
      BY <1>3 DEF OpenPr, repo, Still
    <2>2. CASE /\ pr' = [pr EXCEPT ![b] = "draft"] /\ Return(s, 0)
               /\ \E d \in Unreviewed : review' = [review EXCEPT ![b] = d]
      <3>1. World'
        BY <2>1, <2>2 DEF IInv, World
      <3> QED
        BY <1>0, <2>2, <3>1, SessionReturns
    <2>3. CASE Return(s, 1) /\ UNCHANGED <<pr, review>>
      <3>1. World'
        BY <2>1, <2>3 DEF IInv, World
      <3> QED
        BY <2>3, <3>1, FailureSound
    <2> QED
      BY <1>3, <2>2, <2>3 DEF OpenPr
  <1> QED
    BY <1>1, <1>2, <1>3

-----------------------------------------------------------------------------
(* The guard, and everybody else. *)

\* The rules, in their order.
LEMMA RulesInOrder ==
  /\ DOMAIN COMMAND_RULES = {1, 2, 3, 4, 5, 6, 7}
  /\ COMMAND_RULES[7] = Rule({"push trunk", "push"}, "branch.pushed", "push_branch.sh")
  BY DEF COMMAND_RULES

\* Of the numbers up to 7 that are in a set with 7, one comes first.
LEMMA BelowSeven == \A i \in {1, 2, 3, 4, 5, 6, 7} : 1..(i - 1) \subseteq {1, 2, 3, 4, 5, 6, 7}
  OBVIOUS
LEMMA FirstOfSeven ==
  ASSUME NEW S, 7 \in S
  PROVE  \E i \in S : \A j \in 1..(i - 1) : j \notin S
  <1>1. /\ \A j \in 1..(1 - 1) : FALSE
        /\ \A j \in 1..(2 - 1) : j = 1
        /\ \A j \in 1..(3 - 1) : j = 1 \/ j = 2
        /\ \A j \in 1..(4 - 1) : j = 1 \/ j = 2 \/ j = 3
        /\ \A j \in 1..(5 - 1) : j = 1 \/ j = 2 \/ j = 3 \/ j = 4
        /\ \A j \in 1..(6 - 1) : j = 1 \/ j = 2 \/ j = 3 \/ j = 4 \/ j = 5
        /\ \A j \in 1..(7 - 1) : j = 1 \/ j = 2 \/ j = 3 \/ j = 4 \/ j = 5 \/ j = 6
    OBVIOUS
  <1>2. CASE 1 \in S
    BY <1>1, <1>2
  <1>3. CASE 1 \notin S /\ 2 \in S
    BY <1>1, <1>3
  <1>4. CASE 1 \notin S /\ 2 \notin S /\ 3 \in S
    BY <1>1, <1>4
  <1>5. CASE 1 \notin S /\ 2 \notin S /\ 3 \notin S /\ 4 \in S
    BY <1>1, <1>5
  <1>6. CASE 1 \notin S /\ 2 \notin S /\ 3 \notin S /\ 4 \notin S /\ 5 \in S
    BY <1>1, <1>6
  <1>7. CASE 1 \notin S /\ 2 \notin S /\ 3 \notin S /\ 4 \notin S /\ 5 \notin S
    BY <1>1, <1>7
  <1> QED
    BY <1>2, <1>3, <1>4, <1>5, <1>6, <1>7

\* The guard, heard, denies a text with a push in it, whatever else the text holds: the
\* rule of pushes applies, if not one before it.
LEMMA PushesAreDenied ==
  ASSUME PushWrapped, NEW all, "push trunk" \in all \/ "push" \in all
  PROVE  Denied(all, FALSE)
  <1> DEFINE A(i) == Applies(COMMAND_RULES[i], all)
             r == Rule({"push trunk", "push"}, "branch.pushed", "push_branch.sh")
  <1>1. A(7)
    <2>1. r.matches = {"push trunk", "push"} /\ r.wrapper = "push_branch.sh"
      BY DEF Rule
    <2>2. COMMAND_RULES[7] = r
      BY RulesInOrder
    <2> HIDE DEF r
    <2>3. "issue" \notin r.matches /\ r.matches \cap all # {}
      BY <2>1
    <2> QED
      BY <2>1, <2>2, <2>3 DEF Applies, PushWrapped
  <1>2. ASSUME NEW i \in {1, 2, 3, 4, 5, 6, 7}, A(i), \A j \in 1..(i - 1) : ~A(j)
        PROVE  Denied(all, FALSE)
    BY <1>2, RulesInOrder DEF Denied
  <1>3. PICK i \in {1, 2, 3, 4, 5, 6, 7} : A(i) /\ \A j \in 1..(i - 1) : ~A(j)
    <2> DEFINE S == {i \in {1, 2, 3, 4, 5, 6, 7} : A(i)}
    <2>1. \E i \in S : \A j \in 1..(i - 1) : j \notin S
      <3>1. 7 \in S
        BY <1>1
      <3> HIDE DEF S
      <3> QED
        BY <3>1, FirstOfSeven
    <2>2. \A i \in S : 1..(i - 1) \subseteq {1, 2, 3, 4, 5, 6, 7}
      <3>1. \A i \in {1, 2, 3, 4, 5, 6, 7} : 1..(i - 1) \subseteq {1, 2, 3, 4, 5, 6, 7}
        BY BelowSeven
      <3> QED
        BY <3>1
    <2> QED
      BY <2>1, <2>2
  <1> QED
    BY <1>2, <1>3

\* A raw command the guard did not deny holds no push, or the guard was not heard.
LEMMA RawSound ==
  ASSUME IInv, NEW s \in Sessions, Raw(s)
  PROVE  IInv'
  <1>0. World'
    BY DEF Raw, repo, forge, IInv, World
  <1>1. CASE UNCHANGED <<at, cmd>>
    BY <1>0, <1>1 DEF IInv
  <1>2. CASE ~UNCHANGED <<at, cmd>>
    <2>1. PICK text \in Texts, slow \in BOOLEAN :
            LET all == {text[i] : i \in DOMAIN text} IN
            GoWith(s, "raw", [NoCommand EXCEPT !.verb = "raw", !.text = text,
                                               !.unheard = Denied(all, FALSE)])
      BY <1>2 DEF Raw
    <2> DEFINE all == {text[i] : i \in DOMAIN text}
               d == [NoCommand EXCEPT !.verb = "raw", !.text = text, !.unheard = Denied(all, FALSE)]
    <2>2. text \in Seq(Invocations) /\ text # <<>>
      <3>1. CASE text \in {<<i>> : i \in Invocations}
        <4>1. PICK i \in Invocations : text = <<i>>
          BY <3>1
        <4>2. <<i>> \in Seq(Invocations) /\ <<i>> # <<>>
          OBVIOUS
        <4> QED
          BY <4>1, <4>2
      <3>2. CASE text \in Invocations \X Invocations
        <4>1. PICK i \in Invocations, k \in Invocations : text = <<i, k>>
          BY <3>2
        <4>2. <<i, k>> \in Seq(Invocations) /\ <<i, k>> # <<>>
          OBVIOUS
        <4> QED
          BY <4>1, <4>2
      <3> QED
        BY <3>1, <3>2 DEF Texts
    <2>3. Denied(all, FALSE) \in BOOLEAN
      BY DEF Denied
    <2>4. NoCommand \in Command
      <3>1. <<>> \in Seq(Nodes) /\ <<>> \in Seq(Invocations) /\ MaxRetries \in Nat
        BY LifecycleAssumption
      <3> QED
        BY <3>1 DEF NoCommand, Command
    <2> HIDE DEF all
    <2>5. d \in Command /\ d.verb = "raw" /\ d.text = text /\ d.unheard = Denied(all, FALSE)
      BY <2>2, <2>3, <2>4 DEF Command
    <2>6. d.unheard \/ Harmless(d.text)
      <3>1. ASSUME PushWrapped, NEW i \in DOMAIN text,
                   text[i] \in {"push", "push trunk"}
            PROVE  Denied(all, FALSE)
        <4>1. text[i] \in all
          BY DEF all
        <4> QED
          BY <3>1, <4>1, PushesAreDenied
      <3> QED
        BY <2>5, <3>1 DEF Harmless
    <2>7. GoWith(s, "raw", d)
      BY <2>1 DEF all
    <2> HIDE DEF d
    <2>8. SoundAt("raw", d) /\ "raw" \in Places
      BY <2>2, <2>5, <2>6 DEF SoundAt, Places
    <2> QED
      BY <1>0, <2>5, <2>7, <2>8, SessionGoes
  <1> QED
    BY <1>1, <1>2

\* One invocation leaves branches and PRs of their kinds, and moves the trunk only as a
\* push or a merge.
LEMMA RunsTyped ==
  ASSUME IInv, NEW i \in Invocations, Able(i), Runs(i), UNCHANGED <<review, commits>>
  PROVE  /\ World'
         /\ remote'[Trunk] # remote[Trunk] =>
              \/ i \in {"push", "push trunk"}
              \/ \E b \in Branches : /\ pr[b] = "ready" /\ pr'[b] = "merged"
                                     /\ remote'[Trunk] = remote[Trunk] \cup remote[b]
  <1>0. /\ Trunk \in Branches /\ checkout \in Branches \cup {Detached}
        /\ i # "upstream issue" => Target(i) \in Branches
    BY LifecycleAssumption DEF IInv, World, Able, Target
  <1>1. CASE i \in {"push", "push trunk"} /\ RawPush(Target(i))
    <2>1. Target(i) \in Branches /\ local[Target(i)] \in SUBSET (0..MaxCommits) /\ {} \in Rollups
      BY <1>0, <1>1 DEF IInv, World, Rollups
    <2>2. /\ remote' \in [Branches -> SUBSET (0..MaxCommits)]
          /\ track' \in [Branches -> SUBSET (0..MaxCommits)]
          /\ rollup' \in [Branches -> Rollups]
      BY <1>1, <2>1 DEF RawPush, IInv, World
    <2> QED
      BY <1>1, <2>2 DEF RawPush, IInv, World
  <1>2. CASE i = "merge" /\ MergePr(checkout) /\ UNCHANGED rollup
    <2>1. checkout \in Branches
      BY <1>0, <1>2 DEF Target
    <2> QED
      BY <1>2, <2>1, MergeTyped
  <1>3. CASE i = "ready" /\ pr' = [pr EXCEPT ![checkout] = "ready"] /\ UNCHANGED <<repo, rollup>>
    BY <1>3 DEF repo, IInv, World
  <1>4. CASE i = "upstream issue" /\ UNCHANGED <<repo, pr, rollup>>
    BY <1>4 DEF repo, IInv, World
  <1> QED
    BY <1>1, <1>2, <1>3, <1>4 DEF Runs

\* An invocation leaves a text as harmless as it was.
LEMMA InvokeSound ==
  ASSUME IInv, NEW s \in Sessions, Invoke(s)
  PROVE  /\ IInv'
         /\ remote'[Trunk] # remote[Trunk] =>
              \/ \E b \in Branches : /\ pr[b] = "ready" /\ pr'[b] = "merged"
                                     /\ remote'[Trunk] = remote[Trunk] \cup remote[b]
              \/ cmd[s].unheard \/ ~PushWrapped
  <1> DEFINE c == cmd[s]  i == Head(c.text)
  <1>0. /\ at[s] = "raw" /\ c \in Command /\ c.verb = "raw" /\ c.text \in Seq(Invocations)
        /\ c.text # <<>> /\ (c.unheard \/ Harmless(c.text)) /\ UNCHANGED <<review, commits>>
    BY DEF Invoke, Still, IInv, SoundAt, Command
  <1>1. /\ i \in Invocations /\ i = c.text[1] /\ 1 \in DOMAIN c.text
        /\ Tail(c.text) \in Seq(Invocations) /\ <<>> \in Seq(Invocations)
        /\ \A k \in DOMAIN Tail(c.text) : k + 1 \in DOMAIN c.text /\ Tail(c.text)[k] = c.text[k + 1]
    BY <1>0
  <1>2. PICK ok \in BOOLEAN, rest \in {Tail(c.text), <<>>} :
          /\ IF ok THEN Able(i) /\ Runs(i) ELSE UNCHANGED <<repo, pr, rollup>>
          /\ GoWith(s, IF rest = <<>> THEN "done" ELSE "raw",
                    [c EXCEPT !.text = rest, !.rc = IF ok THEN 0 ELSE 1])
    BY DEF Invoke
  <1>3. World'
    <2>1. CASE ok
      BY <1>0, <1>1, <1>2, <2>1, RunsTyped
    <2>2. CASE ~ok
      BY <1>0, <1>2, <2>2 DEF repo, IInv, World
    <2> QED
      BY <2>1, <2>2
  <1>4. Harmless(c.text) => Harmless(rest)
    <2>1. CASE rest = <<>>
      <3>1. \A k \in DOMAIN rest : FALSE
        BY <2>1
      <3> QED
        BY <3>1 DEF Harmless
    <2>2. CASE rest = Tail(c.text)
      BY <1>1, <2>2 DEF Harmless
    <2> QED
      BY <2>1, <2>2
  <1>5. IInv'
    <2> DEFINE d == [c EXCEPT !.text = rest, !.rc = IF ok THEN 0 ELSE 1]
               step == IF rest = <<>> THEN "done" ELSE "raw"
    <2>0. Tail(c.text) \in Seq(Invocations) /\ <<>> \in Seq(Invocations)
      BY <1>1
    <2>1. rest \in Seq(Invocations) /\ (IF ok THEN 0 ELSE 1) \in 0..2
      <3>1. rest \in Seq(Invocations)
        BY <2>0, Zenon
      <3>2. (IF ok THEN 0 ELSE 1) \in 0..2
        OBVIOUS
      <3> QED
        BY <3>1, <3>2
    <2>2. d \in Command /\ d.verb = "raw" /\ d.text = rest /\ d.unheard = c.unheard
      BY <1>0, <2>1 DEF Command
    <2>3. step \in Places /\ (step = "raw" => rest # <<>>) /\ step \in {"raw", "done"}
      BY DEF Places
    <2>4. GoWith(s, step, d)
      BY <1>2
    <2> HIDE DEF d, step
    <2>5. SoundAt(step, d)
      BY <1>0, <1>4, <2>2, <2>3 DEF SoundAt
    <2> QED
      BY <1>3, <2>2, <2>3, <2>4, <2>5, SessionGoes
  <1>6. ASSUME remote'[Trunk] # remote[Trunk], PushWrapped, ~c.unheard
        PROVE  \E b \in Branches : /\ pr[b] = "ready" /\ pr'[b] = "merged"
                                   /\ remote'[Trunk] = remote[Trunk] \cup remote[b]
    <2>1. i \notin {"push", "push trunk"}
      BY <1>0, <1>1, <1>6 DEF Harmless
    <2>2. ok
      BY <1>2, <1>6 DEF repo
    <2> QED
      BY <1>0, <1>1, <1>2, <1>6, <2>1, <2>2, RunsTyped
  <1> QED
    BY <1>5, <1>6

\* Commits, switches, pushes and merges from elsewhere and the forge leave the sessions alone.
LEMMA PeopleSound ==
  ASSUME IInv, Commit \/ Switch \/ PushElsewhere \/ Forge \/ MergeElsewhere
  PROVE  IInv'
  <1>0. MaxCommits \in Nat
    BY LifecycleAssumption
  <1>1. ASSUME UNCHANGED <<at, cmd>>, World' PROVE IInv'
    BY <1>1 DEF IInv
  <1>2. CASE Commit
    <2>1. checkout \in Branches
      BY <1>2 DEF Commit, People, Here, IInv, World
    <2>2. commits' \in 0..MaxCommits
      <3>1. commits < MaxCommits /\ commits' = commits + 1
        BY <1>2 DEF Commit, People
      <3>2. commits \in 0..MaxCommits
        BY DEF IInv, World
      <3> QED
        BY <1>0, <3>1, <3>2
    <2>3. PICK rest \in SUBSET local[checkout] : local' = [local EXCEPT ![checkout] = rest \cup {commits'}]
      BY <1>2 DEF Commit, People
    <2>4. rest \cup {commits'} \in SUBSET (0..MaxCommits)
      BY <2>1, <2>2 DEF IInv, World
    <2>5. local' \in [Branches -> SUBSET (0..MaxCommits)]
      BY <2>3, <2>4 DEF IInv, World
    <2> QED
      BY <1>1, <1>2, <2>2, <2>5 DEF Commit, People, forge, IInv, World
  <1>3. CASE Switch
    BY <1>1, <1>3 DEF Switch, People, forge, IInv, World
  <1>4. CASE PushElsewhere
    <2>1. commits' \in 0..MaxCommits /\ {} \in Rollups
      <3>1. commits < MaxCommits /\ commits' = commits + 1
        BY <1>4 DEF PushElsewhere, People
      <3>2. commits \in 0..MaxCommits /\ {} \in Rollups
        BY DEF IInv, World, Rollups
      <3> QED
        BY <1>0, <3>1, <3>2
    <2>2. PICK b \in Branches : /\ remote' = [remote EXCEPT ![b] = @ \cup {commits'}]
                                /\ rollup' = [rollup EXCEPT ![b] = {}]
      BY <1>4 DEF PushElsewhere, People
    <2>3. remote' \in [Branches -> SUBSET (0..MaxCommits)] /\ rollup' \in [Branches -> Rollups]
      BY <2>1, <2>2 DEF IInv, World
    <2> QED
      BY <1>1, <1>4, <2>1, <2>3 DEF PushElsewhere, People, IInv, World
  <1>5. CASE Forge
    BY <1>1, <1>5 DEF Forge, People, repo, IInv, World
  <1>6. CASE MergeElsewhere
    <2>1. PICK b \in Branches, goes \in BOOLEAN :
            pr' = [pr EXCEPT ![b] = "merged"] /\ remote' = Merged(b, goes)
      BY <1>6 DEF MergeElsewhere, People
    <2>2. remote' \in [Branches -> SUBSET (0..MaxCommits)]
      BY <2>1, MergedTyped
    <2> QED
      BY <1>1, <1>6, <2>1, <2>2 DEF MergeElsewhere, People, IInv, World
  <1> QED
    BY <1>2, <1>3, <1>4, <1>5, <1>6

-----------------------------------------------------------------------------
(* The invariant. *)

\* The initial state satisfies the invariant.
LEMMA InitIInv == Init => IInv
  <1> SUFFICES ASSUME Init PROVE IInv
    OBVIOUS
  <1>1. /\ MaxCommits \in Nat /\ MaxRetries \in Nat /\ "idle" \in Places
        /\ <<>> \in Seq(Nodes) /\ <<>> \in Seq(Invocations)
    BY LifecycleAssumption DEF Places
  <1>2. {0} \subseteq 0..MaxCommits /\ commits \in 0..MaxCommits
    <2>1. 0 \in 0..MaxCommits
      BY <1>1
    <2> QED
      BY <2>1 DEF Init
  <1>3. World
    BY <1>2 DEF Init, World, Rollups
  <1>4. NoCommand \in Command /\ SoundAt("idle", NoCommand)
    BY <1>1 DEF NoCommand, Command, SoundAt
  <1> QED
    BY <1>1, <1>3, <1>4 DEF Init, IInv

\* Every step keeps it.
LEMMA NextIInv == IInv /\ [Next]_vars => IInv'
  <1> SUFFICES ASSUME IInv, [Next]_vars PROVE IInv'
    OBVIOUS
  <1>1. ASSUME NEW s \in Sessions, Step(s)
        PROVE  IInv'
    BY <1>1, WalkSound, ResolveSound, PushSound, VerifySound, DetectSound, FinishSound, ReadySound,
       MonitorSound, MergeSound, CreateSound, InvokeSound DEF Step
  <1>2. ASSUME NEW s \in Sessions, Use(s)
        PROVE  IInv'
    BY <1>2, CommandsBegin, RawSound DEF Use
  <1>3. CASE UNCHANGED vars
    BY <1>3 DEF IInv, World, vars, repo, forge, counts
  <1> QED
    BY <1>1, <1>2, <1>3, PeopleSound DEF Next

\* Every reachable state satisfies it.
THEOREM Invariance == Spec => []IInv
  BY InitIInv, NextIInv, PTL DEF Spec

\* Every variable holds a value of its kind: branches, PRs and the commands of the sessions
\* (dag_workflow.py).
THEOREM TypeCorrect == Spec => []TypeOK
  <1>1. IInv => TypeOK
    <2> SUFFICES ASSUME IInv PROVE TypeOK
      OBVIOUS
    <2>1. ASSUME NEW s \in Sessions
          PROVE  /\ DOMAIN cmd[s] = DOMAIN NoCommand
                 /\ cmd[s].verb \in {"none", "check", "push", "promote", "finish", "create", "raw"}
                 /\ cmd[s].branch \in Branches \cup {Detached}
                 /\ cmd[s].tries \in 0..MaxRetries /\ cmd[s].rc \in 0..2
                 /\ cmd[s].seen \cup cmd[s].held \subseteq Nodes
                 /\ cmd[s].text \in Seq(Invocations) /\ cmd[s].unheard \in BOOLEAN
      BY DEF IInv, Command, NoCommand
    <2> QED
      BY <2>1 DEF IInv, World, Places, TypeOK
  <1> QED
    BY <1>1, Invariance, PTL

\* "Exit 0 if every prerequisite is satisfied" (prereqs_satisfied): whatever the order of the
\* walk, whichever call failed and whatever changes meanwhile, check allows a node only when
\* each of its ancestors said yes to this command.
THEOREM AllowedIsEarnedHolds == Spec => []AllowedIsEarned
  <1>1. IInv => AllowedIsEarned
    <2> SUFFICES ASSUME IInv, NEW s \in Sessions, at[s] = "done", cmd[s].verb = "check", cmd[s].rc = 0
                 PROVE  Ancestors(cmd[s].node) \subseteq cmd[s].held
      BY DEF AllowedIsEarned
    <2> DEFINE c == cmd[s]
    <2>1. /\ Asked(c) /\ c.seen # {} /\ c.walk = <<>> /\ c.held \subseteq Nodes
      BY DEF IInv, SoundAt, Command
    <2>2. Listed(c.walk) = {}
      BY <2>1 DEF Listed
    <2>3. Direct(c.node) \subseteq c.held /\ \A m \in c.held : Direct(m) \subseteq c.held
      BY <2>1, <2>2 DEF Asked
    <2> QED
      BY <2>1, <2>3 DEF Ancestors
  <1> QED
    BY <1>1, Invariance, PTL

-----------------------------------------------------------------------------
(* What a step does to origin. *)

\* A step of a session leaves the others where they are.
LEMMA OthersStand ==
  ASSUME IInv, NEW q \in Sessions, Step(q) \/ Use(q), NEW s \in Sessions, s # q
  PROVE  at'[s] = at[s] /\ cmd'[s] = cmd[s]
  <1>1. ASSUME NEW step, NEW c, GoWith(q, step, c)
        PROVE  at'[s] = at[s] /\ cmd'[s] = cmd[s]
    BY <1>1 DEF GoWith, IInv
  <1>2. ASSUME NEW step, Go(q, step)
        PROVE  at'[s] = at[s] /\ cmd'[s] = cmd[s]
    BY <1>2 DEF Go, IInv
  <1>3. CASE Walk(q) \/ Resolve(q) \/ Push(q) \/ Verify(q) \/ Detect(q)
    BY <1>1, <1>2, <1>3 DEF Walk, Resolve, Push, Pushed, Verify, Detect, Return
  <1>4. CASE HeadOf(q) \/ Current(q) \/ View(q) \/ Ready(q) \/ Monitor(q) \/ Review(q) \/ Merge(q)
    BY <1>1, <1>2, <1>4 DEF HeadOf, Current, View, Promoted, Ready, Monitor, Review, Merge, Return
  <1>5. CASE Choose(q) \/ Existing(q) \/ OpenPr(q)
    BY <1>1, <1>2, <1>5 DEF Choose, Existing, OpenPr, Return
  <1>6. CASE Check(q) \/ PushVerb(q) \/ PromoteVerb(q) \/ FinishVerb(q) \/ CreateVerb(q)
    BY <1>1, <1>6 DEF Check, PushVerb, PromoteVerb, FinishVerb, CreateVerb, Begin
  <1>7. CASE Raw(q) \/ Invoke(q)
    BY <1>1, <1>7 DEF Raw, Invoke
  <1> QED
    BY <1>3, <1>4, <1>5, <1>6, <1>7 DEF Step, Use

\* Whose step it is.
LEMMA OwnStep ==
  ASSUME IInv, Next, NEW s \in Sessions, at'[s] # at[s]
  PROVE  Step(s) \/ Use(s)
  <1>1. CASE Commit \/ Switch \/ PushElsewhere \/ Forge \/ MergeElsewhere
    BY <1>1 DEF Commit, Switch, PushElsewhere, Forge, MergeElsewhere, People
  <1> QED
    BY <1>1, OthersStand DEF Next

\* A push under way is continued by its own two steps only.
LEMMA PushOrVerify ==
  ASSUME IInv, Next, NEW s \in Sessions, at[s] \in {"push", "verify"}, at'[s] # at[s]
  PROVE  Push(s) \/ Verify(s)
  <1>1. CASE Step(s)
    BY <1>1 DEF Step, Walk, Resolve, Detect, HeadOf, Current, View, Ready, Monitor, Review, Merge,
                Choose, Existing, OpenPr, Invoke
  <1>2. CASE Use(s)
    BY <1>2 DEF Use, Check, PushVerb, PromoteVerb, FinishVerb, CreateVerb, Begin, Raw
  <1> QED
    BY <1>1, <1>2, OwnStep

\* cmd_push goes on as pushed only when origin's branch is at the commit it resolved or at the
\* branch's tip of that moment, and pushes no other branch, in any number of sessions.
THEOREM PushIsTrueHolds == Spec => PushIsTrue
  <1> DEFINE True == \A s \in Sessions : LET b == cmd[s].branch IN
                       at[s] \in {"push", "verify"} /\ at'[s] # at[s] =>
                         /\ \A o \in Branches \ {b} : remote'[o] = remote[o]
                         /\ at'[s] \notin {"push", "verify"} /\ ~(at'[s] = "done" /\ cmd'[s].rc # 0)
                              => remote'[b] \in {cmd[s].expected, local[b]}
  <1>1. IInv /\ [Next]_vars => [True]_vars
    <2> SUFFICES ASSUME IInv, Next, NEW s \in Sessions, at[s] \in {"push", "verify"}, at'[s] # at[s]
                 PROVE  /\ \A o \in Branches \ {cmd[s].branch} : remote'[o] = remote[o]
                        /\ at'[s] \notin {"push", "verify"} /\ ~(at'[s] = "done" /\ cmd'[s].rc # 0)
                             => remote'[cmd[s].branch] \in {cmd[s].expected, local[cmd[s].branch]}
      BY DEF True
    <2>1. Push(s) \/ Verify(s)
      BY PushOrVerify
    <2>2. CASE Push(s)
      <3>1. RefPushed(cmd[s]) = cmd[s].branch /\ cmd[s].branch \in Branches
        BY DEF IInv, SoundAt, RefPushed
      <3>2. CASE Go(s, "verify")
        BY <2>2, <3>1, <3>2 DEF Push, IInv, World, Go
      <3>3. CASE remote' = [remote EXCEPT ![cmd[s].branch] = local[cmd[s].branch]]
        BY <3>1, <3>3 DEF IInv, World
      <3> QED
        BY <2>2, <3>1, <3>2, <3>3 DEF Push
    <2>3. CASE Verify(s)
      <3>1. CASE Return(s, 1)
        <4>1. cmd'[s] = [cmd[s] EXCEPT !.rc = 1] /\ cmd[s] \in Command /\ 1 # 0
          BY <3>1 DEF IInv, Return, GoWith
        <4>2. remote' = remote /\ cmd'[s].rc # 0
          BY <2>3, <4>1 DEF Command, Verify, repo
        <4>3. at'[s] = "done"
          BY <3>1 DEF Return, GoWith, IInv
        <4> QED
          BY <4>2, <4>3
      <3>2. CASE GoWith(s, "push", [cmd[s] EXCEPT !.tries = @ + 1])
        BY <2>3, <3>2 DEF Verify, GoWith, repo, IInv
      <3>3. CASE RemoteHasSha(cmd[s])
        BY <2>3, <3>3 DEF Verify, RemoteHasSha, repo
      <3> QED
        BY <2>3, <3>1, <3>2, <3>3 DEF Verify, repo
    <2> QED
      BY <2>1, <2>2, <2>3
  <1> QED
    BY <1>1, Invariance, PTL DEF Spec, PushIsTrue

\* What moves the trunk, and what a step may do to it.
Merges == \E b \in Branches : /\ pr[b] = "ready" /\ pr'[b] = "merged"
                              /\ remote'[Trunk] = remote[Trunk] \cup remote[b]
TrunkHeld == remote'[Trunk] # remote[Trunk] => Merges \/ \E s \in Sessions : at[s] = "raw" /\ cmd[s].unheard

\* A session's step moves the trunk only as a merge or with a text the guard would have denied,
\* and comes to the monitor with a PR that is not a draft.
LEMMA StepMerges ==
  ASSUME PushWrapped, IInv, NEW s \in Sessions, Step(s)
  PROVE  TrunkHeld /\ (at[s] # "monitor" /\ at'[s] = "monitor" => IsReady(cmd[s].branch)')
  <1>0. SoundAt(at[s], cmd[s])
    BY DEF IInv
  <1>1. CASE Push(s)
    <2>1. RefPushed(cmd[s]) = cmd[s].branch /\ cmd[s].branch \in Branches \ {Trunk}
      BY <1>0, <1>1 DEF SoundAt, Push, RefPushed
    <2>2. remote'[Trunk] = remote[Trunk]
      BY <1>1, <2>1, LifecycleAssumption DEF Push, IInv, World
    <2>3. at'[s] # "monitor"
      BY <1>1 DEF Push, Pushed, Return, Go, GoWith, IInv
    <2> QED
      BY <2>2, <2>3 DEF TrunkHeld
  <1>2. CASE Merge(s)
    <2>1. at'[s] = "done" /\ cmd[s].branch \in Branches /\ UNCHANGED <<rollup, review, commits>>
      BY <1>0, <1>2 DEF Merge, SoundAt, Return, GoWith, IInv, Still
    <2>2. CASE MergePr(cmd[s].branch)
      <3>1. Merges
        BY <2>1, <2>2, MergeTyped DEF Merges
      <3> QED
        BY <2>1, <3>1 DEF TrunkHeld
    <2>3. CASE UNCHANGED repo
      BY <2>1, <2>3 DEF TrunkHeld, repo
    <2> QED
      BY <1>2, <2>2, <2>3 DEF Merge
  <1>3. CASE Invoke(s)
    <2>1. at[s] = "raw" /\ at'[s] \in {"raw", "done"}
      BY <1>3 DEF Invoke, GoWith, IInv
    <2>2. TrunkHeld
      BY <1>3, <2>1, InvokeSound DEF TrunkHeld, Merges
    <2> QED
      BY <2>1, <2>2
  <1>4. CASE Walk(s) \/ Resolve(s) \/ Verify(s) \/ Detect(s) \/ HeadOf(s) \/ Current(s)
    <2>1. UNCHANGED remote /\ at'[s] # "monitor"
      BY <1>4 DEF Walk, Resolve, Verify, Pushed, Detect, HeadOf, Current, Return, Go, GoWith, repo, IInv
    <2> QED
      BY <2>1 DEF TrunkHeld
  <1>5. CASE Monitor(s) \/ Review(s) \/ Choose(s) \/ Existing(s) \/ OpenPr(s)
    <2>1. UNCHANGED remote /\ at'[s] # "monitor"
      BY <1>5 DEF Monitor, Review, Choose, Existing, OpenPr, Return, Go, GoWith, repo, IInv
    <2> QED
      BY <2>1 DEF TrunkHeld
  <1>6. CASE View(s)
    <2>1. UNCHANGED <<remote, pr>>
      BY <1>6 DEF View, repo, forge
    <2>2. CASE Promoted(s) /\ IsReady(cmd[s].branch)
      <3>1. at'[s] = "monitor" => cmd' = cmd
        BY <2>2 DEF Promoted, Go, Return, GoWith, IInv
      <3> QED
        BY <2>1, <2>2, <3>1 DEF IsReady, TrunkHeld
    <2>3. CASE ~(Promoted(s) /\ IsReady(cmd[s].branch))
      <3>1. at'[s] # "monitor"
        BY <1>6, <2>1, <2>3 DEF View, Go, Return, GoWith, IInv
      <3> QED
        BY <2>1, <3>1 DEF TrunkHeld
    <2> QED
      BY <2>2, <2>3
  <1>7. CASE Ready(s)
    <2>1. UNCHANGED remote /\ cmd[s].branch \in Branches
      BY <1>0, <1>7 DEF Ready, repo, SoundAt
    <2>2. CASE Promoted(s) /\ pr' = [pr EXCEPT ![cmd[s].branch] = "ready"]
      <3>1. at'[s] = "monitor" => cmd' = cmd
        BY <2>2 DEF Promoted, Go, Return, GoWith, IInv
      <3> QED
        BY <2>1, <2>2, <3>1 DEF IsReady, IInv, World, TrunkHeld
    <2>3. CASE Return(s, 1)
      BY <2>1, <2>3 DEF Return, GoWith, IInv, TrunkHeld
    <2> QED
      BY <1>7, <2>2, <2>3 DEF Ready
  <1> QED
    BY <1>1, <1>2, <1>3, <1>4, <1>5, <1>6, <1>7 DEF Step

\* "Direct pushes to main/master are blocked" (COMMAND_RULES): with push_branch.sh installed,
\* only the merge of a PR that was ready moves origin's trunk, by its own commits, whatever the
\* sessions run, but for a text the guard would have denied had it not been killed; and the
\* monitor is handed no draft.
THEOREM TrunkMovesByMergeHolds ==
  ASSUME PushWrapped PROVE Spec => TrunkMovesByMerge
  <1> DEFINE HandedOn == \A s \in Sessions : at[s] # "monitor" /\ at'[s] = "monitor" => IsReady(cmd[s].branch)'
  <1>1. IInv /\ [Next]_vars => [TrunkHeld /\ HandedOn]_vars
    <2> SUFFICES ASSUME IInv, Next PROVE TrunkHeld /\ HandedOn
      OBVIOUS
    <2>1. ASSUME NEW s \in Sessions, Step(s) PROVE TrunkHeld
      BY <2>1, StepMerges
    <2>2. ASSUME NEW s \in Sessions, Use(s) PROVE TrunkHeld
      <3>1. UNCHANGED repo
        BY <2>2 DEF Use, Check, PushVerb, PromoteVerb, FinishVerb, CreateVerb, Begin, Raw
      <3> QED
        BY <3>1 DEF repo, TrunkHeld
    <2>3. ASSUME Commit \/ Switch \/ PushElsewhere \/ Forge PROVE TrunkHeld
      <3>1. remote'[Trunk] = remote[Trunk]
        BY <2>3, LifecycleAssumption DEF Commit, Switch, PushElsewhere, Forge, People, repo, IInv, World
      <3> QED
        BY <3>1 DEF TrunkHeld
    <2>4. ASSUME MergeElsewhere PROVE TrunkHeld
      <3>1. PICK b \in Branches, goes \in BOOLEAN :
              pr[b] = "ready" /\ pr' = [pr EXCEPT ![b] = "merged"] /\ remote' = Merged(b, goes)
        BY <2>4 DEF MergeElsewhere, People
      <3>2. pr'[b] = "merged" /\ remote'[Trunk] = remote[Trunk] \cup remote[b]
        BY <3>1, MergedTyped DEF IInv, World
      <3> QED
        BY <3>1, <3>2 DEF TrunkHeld, Merges
    <2>5. ASSUME NEW s \in Sessions, at[s] # "monitor", at'[s] = "monitor" PROVE IsReady(cmd[s].branch)'
      <3>1. CASE Step(s)
        BY <2>5, <3>1, StepMerges
      <3>2. CASE Use(s)
        BY <2>5, <3>2 DEF Use, Check, PushVerb, PromoteVerb, FinishVerb, CreateVerb, Begin, GoWith, Raw, IInv
      <3> QED
        BY <2>5, <3>1, <3>2, OwnStep
    <2> QED
      BY <2>1, <2>2, <2>3, <2>4, <2>5 DEF Next
  <1> QED
    BY <1>1, Invariance, PTL DEF Spec, TrunkMovesByMerge, TrunkHeld, Merges
=============================================================================
