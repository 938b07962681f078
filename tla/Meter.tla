--------------------------------- MODULE Meter ---------------------------------
(***************************************************************************)
(* cost.py: what a run cost, recovered from its log, and what many runs    *)
(* cost together.  A log holds results with their price among whatever     *)
(* else the agent wrote, cut-off results and ones without a price          *)
(* included; any of it may be larger than the window that is read first.   *)
(* A log is its pieces, each at its distance from the end of the file.     *)
(***************************************************************************)
EXTENDS Naturals, Sequences, FiniteSets

CONSTANTS
  Runs,             \* bound: runs of the list
  MaxPieces,        \* bound: pieces of a log
  MaxSize,          \* bound: size of a log
  TailBytes, MaxBytes  \* _TAIL_BYTES, _MAX_BYTES, in the units of a log's size

VARIABLES
  logs,   \* each run's log, a sequence of pieces
  lost,   \* the runs whose log is missing or unreadable
  killed, \* the runs whose wrapper died with the agent
  total   \* the totals of the list, no fields before they are printed

given == <<logs, lost, killed>>
vars  == <<given, total>>

MeterAssumption == /\ TailBytes \in Nat /\ MaxBytes \in Nat /\ TailBytes < MaxBytes
                   /\ MaxSize \in Nat /\ MaxPieces \in Nat /\ IsFiniteSet(Runs)

\* A result with its price, 0 or 1, or anything that states none; from: the bytes from its
\* first to the log's last.
Piece == [kind : {"result"}, usd : 0..1, from : 1..MaxSize]
         \cup [kind : {"other"}, usd : {0}, from : 1..MaxSize]
Logs  == {log \in UNION {[1..n -> Piece] : n \in 0..MaxPieces} :
            \A i, j \in DOMAIN log : i < j => log[i].from > log[j].from}

Size(log) == IF log = <<>> THEN 0 ELSE log[1].from

-----------------------------------------------------------------------------
\* _tail: the pieces that stand whole in the last limit bytes.
Window(log, limit) == {i \in DOMAIN log : log[i].from <= limit}

FromPayload(piece) == IF piece.kind = "result" THEN {piece.usd} ELSE {}

\* _scan: backwards, past everything that carries no price.
Scan(log, window) ==
  LET priced == {i \in window : FromPayload(log[i]) # {}}
  IN UNION {FromPayload(log[i]) : i \in {j \in priced : \A k \in priced : k <= j}}

\* Mutant: the tail is all that is read.
ParseTail(r) == IF r \in lost THEN {} ELSE Scan(logs[r], Window(logs[r], TailBytes))
ParseLog(r) ==
  LET log   == logs[r]
      found == Scan(log, Window(log, TailBytes))
  IN CASE r \in lost -> {}
       [] r \notin lost /\ (found # {} \/ Size(log) <= TailBytes) -> found
       [] r \notin lost /\ found = {} /\ Size(log) > TailBytes -> Scan(log, Window(log, MaxBytes))

\* run_agent banks the price, success or not; a wrapper that was killed never does.  The
\* record of a run holds a set of at most one price.
Cost(r) == IF r \in killed THEN {} ELSE ParseLog(r)

\* Mutant: a run without a price is one that cost nothing.
TotalOfAll == [usd |-> Cardinality({r \in Runs : 1 \in Cost(r)}),
               metered |-> Cardinality(Runs), unmetered |-> 0]
\* A sum of zeros and ones counts the ones.
Total ==
  LET metered == {r \in Runs : Cost(r) # {}}
  IN [usd |-> Cardinality({r \in metered : 1 \in Cost(r)}),
      metered |-> Cardinality(metered), unmetered |-> Cardinality(Runs \ metered)]

-----------------------------------------------------------------------------
Nothing == [field \in {} |-> 0]
Init == logs \in [Runs -> Logs] /\ lost \in SUBSET Runs /\ killed \in SUBSET Runs /\ total = Nothing

\* work --list, and the report of a campaign.
List == total = Nothing /\ total' = Total /\ UNCHANGED given

Next == List
Spec == Init /\ [][Next]_vars

TypeOK == /\ {killed, lost} \subseteq SUBSET Runs
          /\ DOMAIN total \subseteq {"usd", "metered", "unmetered"}

\* What the run's newest result says it cost, when that result is not out of every reach.
Stated(r) == {usd \in 0..1 : \E i \in DOMAIN logs[r] :
                /\ logs[r][i].kind = "result" /\ logs[r][i].usd = usd
                /\ logs[r][i].from <= MaxBytes
                /\ \A j \in i + 1..Len(logs[r]) : logs[r][j].kind # "result"}

\* Unknown is not zero: a total names as unmetered every run that was killed, or whose log
\* states no price or cannot be read, and only those; the rest it adds up at the price of their
\* newest result, however large (cost.py parse_log, total; work.run_agent).
Known == {r \in Runs \ (killed \cup lost) : Stated(r) # {}}
TotalIsHonest ==
  total # Nothing =>
    /\ total.unmetered = Cardinality(Runs \ Known) /\ total.metered = Cardinality(Known)
    /\ total.usd = Cardinality({r \in Known : 1 \in Stated(r)})
=============================================================================
