-------------------------------- MODULE Scanner --------------------------------
(***************************************************************************)
(* The chain scanner over the deposit addresses of Custody.  A run reads   *)
(* the heads and the cursor, lists the watched addresses, reads the window *)
(* of each through the providers, records every transfer in a command of   *)
(* its own and then moves the one cursor as far as every address is proved *)
(* read.  A recording command reads who holds the address before it takes  *)
(* any lock, and writes later.  Beside it run the desk's own recordings,   *)
(* confirmation, the orphan sweep and the trades and obligations that take *)
(* and release addresses.                                                  *)
(***************************************************************************)
EXTENDS Custody, Integers

CONSTANTS
  Trades,       \* the subjects that are trades; the others are route obligations
  Wallets,      \* the active treasury wallets
  Transfers,    \* the USDT transfers on their way into our addresses
  Runs,         \* scan runs that can be under way at once
  Overlap,      \* rescanOverlapBlocks (200)
  Lag,          \* how far the provider that gives the heads may be behind
  Lookback,     \* startLookbackBlocks (1 000)
  Window,       \* maxBlocksPerRun (20 000)
  Budget,       \* maxTransfersPerRun (500)
  MaxCommands,  \* bound: recording commands under way at once
  MaxBlock,     \* bound: height of the chain
  MaxReorgs     \* bound: how many times blocks are replaced

\* A block is final once 19 of 27 representatives built on it; Overlap is wider.
ASSUME ScannerAssumption ==
  /\ Trades \subseteq Subjects
  /\ Wallets \cap Addresses = {} /\ IsFiniteSet(Wallets)
  /\ {Overlap, Window, Budget, MaxBlock} \subseteq Nat \ {0}
  /\ {Lag, Lookback, MaxCommands, MaxReorgs} \subseteq Nat
  /\ IsFiniteSet(Transfers) /\ Unassigned \notin Addresses \cup Wallets

VARIABLES
  head, solid, \* the chain: its height and its last solidified block
  mined,       \* the block of each transfer, 0 while it is in none
  ok,          \* whether the transaction succeeded in that block
  dest,        \* the address each transfer goes to
  unwatched,   \* history: unrecorded transfers that are for a backfill: mined before
               \* the first run's window, or while their address was not watched,
               \* or whose address has left the watch since
  rec,         \* crypto_transfer.state, NONE before the row exists
  claim,       \* the live allocation of a transfer: the subject it pays for
  looked,      \* the recording commands under way: their transfer, and who held its
               \* address when they read it
  ended,       \* the trades and obligations that are CANCELLED
  late,        \* history: transfers recorded for a trade cancelled since its address was read
  absent,      \* the transfer the sweep is at, once every provider said it does not know it
  cursor,      \* chain_cursor.last_scanned_block, NoCursor before the first run
  run,         \* the scan runs under way
  reorgs

chainVars == <<head, solid, mined, ok, dest, reorgs>>
recordVars == <<rec, claim, absent, unwatched, late>>
scanVars == <<cursor, run>>
scannerVars == <<custodyVars, chainVars, recordVars, scanVars, looked, ended>>

-----------------------------------------------------------------------------
Least(x, y)    == IF x < y THEN x ELSE y
Greatest(x, y) == IF x > y THEN x ELSE y
Blocks == 0 .. MaxBlock
Known  == Addresses \cup Wallets
NoCursor == -1
Obligations == Subjects \ Trades

\* A scan run reading its window, with the transfers it is to record before it goes on.
Reading == [busy : BOOLEAN, from : Blocks, to : Blocks, left : SUBSET Known,
            proven : Blocks \cup {-1}, work : 0 .. Budget, todo : SUBSET Transfers]
IdleReading == [busy |-> FALSE, from |-> 0, to |-> 0, left |-> {}, proven |-> 0, work |-> 0, todo |-> {}]

\* A recording command between its read of the assignment and its writes.
LookUps == [t : Transfers, who : Subjects \cup {Nobody}]

ScannerTypeOK ==
  /\ CustodyTypeOK
  /\ head \in Blocks /\ solid \in 0 .. head /\ reorgs \in 0 .. MaxReorgs
  /\ mined \in [Transfers -> Blocks] /\ ok \in [Transfers -> BOOLEAN]
  /\ dest \in [Transfers -> Known \cup {Unassigned}]
  /\ rec \in [Transfers -> {"NONE", "DETECTED", "CONFIRMED", "FAILED", "ORPHANED"}]
  /\ claim \in [Transfers -> Subjects \cup {Nobody}]
  /\ absent \subseteq Transfers /\ unwatched \subseteq Transfers /\ late \subseteq Transfers
  /\ looked \subseteq LookUps /\ ended \subseteq Subjects
  /\ cursor \in Blocks \cup {NoCursor}
  /\ run \in [Runs -> Reading]

\* The transfers in a window of the chain, as the receipts show them.
InWindow(a, from, to) ==
  {t \in Transfers : dest[t] = a /\ mined[t] # 0 /\ ok[t] /\ from <= mined[t] /\ mined[t] <= to}

\* watchedAddresses: deposit addresses in use or cooling down, and the wallets.
WatchList == Watched \cup Wallets

\* What reading an address can give: the transfers reported, and the block through
\* which they are all of them.  Complete means the whole window; an interrupted page
\* or a missing receipt proves the blocks below it, and no answer proves nothing.
ReadAnswers(a, from, to) ==
  {[seen |-> S, proven |-> p] : S \in SUBSET InWindow(a, from, to),
                                p \in {from - 1, to} \cup {mined[t] : t \in InWindow(a, from, to)}}
\* readAddress over readIncomingTransfers.
Reads(a, from, to) == {x \in ReadAnswers(a, from, to) : InWindow(a, from, x.proven) \subseteq x.seen}

\* The transfers of an answer that a run can still record within its budget: the first
\* ones of those not recorded yet, in the order of their blocks.
New(x) == {t \in x.seen : rec[t] = "NONE"}
FirstNew(x, room) ==
  {N \in SUBSET New(x) : /\ Cardinality(N) = Least(Cardinality(New(x)), room)
                         /\ \A t \in N, u \in New(x) \ N : mined[t] <= mined[u]}

\* Defect: what the budget left out counts as read.
StoppedHere(r, a, x, N) == [r EXCEPT !.left = {}, !.proven = Least(@, x.proven), !.todo = N]
\* Out of budget: nothing is proved from the first block left on, and nothing at all
\* for the addresses not read yet.
Stopped(r, a, x, N) ==
  LET rest  == New(x) \ N
      first == CHOOSE b \in {mined[t] - 1 : t \in rest} : \A t \in rest : b < mined[t]
  IN  [r EXCEPT !.left = {}, !.todo = N,
                !.proven = Least(Least(@, x.proven), IF r.left = {a} THEN first ELSE r.from - 1)]

\* Else the run is done with the address.
WentOn(r, a, x, N) ==
  [r EXCEPT !.left = @ \ {a}, !.proven = Least(@, x.proven), !.work = @ + Cardinality(N), !.todo = N]

\* Defect: an assignment attributes after it was released.
HolderOfReleased(a) ==
  IF \A s \in Subjects : assigned[s] # a THEN Nobody
  ELSE CHOOSE s \in Subjects : assigned[s] = a /\ (Open(a) # {} => s \in Open(a))
\* A treasury wallet is nobody's: what arrives there becomes a case.
HolderOf(a) == IF a \in Wallets THEN Nobody ELSE Holder(a)

\* recordClientDeposit: who a recorded transfer pays for, given who held its address when
\* that was read.  A trade is locked afterwards and asked nothing, so it gets the leg even
\* if it was cancelled in between.  An obligation is asked under its lock whether it is
\* open, and the sender and the amount have to fit, else it is nobody's.
PaysFor(who) == IF who \in Obligations THEN {Nobody} \cup ({who} \ ended) ELSE {who}

-----------------------------------------------------------------------------
ScannerInit ==
  /\ CustodyInit
  /\ head = 0 /\ solid = 0 /\ reorgs = 0
  /\ mined = [t \in Transfers |-> 0] /\ ok = [t \in Transfers |-> TRUE]
  /\ dest = [t \in Transfers |-> Unassigned]
  /\ rec = [t \in Transfers |-> "NONE"] /\ claim = [t \in Transfers |-> Nobody]
  /\ absent = {} /\ unwatched = {} /\ looked = {} /\ ended = {} /\ late = {}
  /\ cursor = NoCursor
  /\ run = [r \in Runs |-> IdleReading]

(* The chain. *)

\* The transfers of S are in the blocks of at from now on (0: in none).
Place(S, at, to, failed) ==
  /\ mined' = [t \in Transfers |-> IF t \in S THEN at[t] ELSE mined[t]]
  /\ ok' = [t \in Transfers |-> IF t \in S THEN t \notin failed ELSE ok[t]]
  /\ dest' = [t \in Transfers |-> IF t \in S THEN to[t] ELSE dest[t]]
  /\ unwatched' = (unwatched \ S) \cup {t \in S : to[t] \notin WatchList /\ rec[t] = "NONE"}
  /\ UNCHANGED <<custodyVars, rec, claim, absent, late, scanVars, looked, ended>>

\* The addresses anybody was told of.
Given == Wallets \cup {a \in Addresses : \E s \in Subjects : assigned[s] = a}

\* A block.  Only a transfer that was seen before is of interest if it fails.
Mine ==
  /\ head < MaxBlock /\ head - solid < Overlap
  /\ head' = head + 1
  /\ \E S \in SUBSET {t \in Transfers : mined[t] = 0} :
     \E to \in [S -> Given] : \E failed \in SUBSET {t \in S : rec[t] # "NONE"} :
       /\ \A t \in S : dest[t] \in {Unassigned, to[t]}
       /\ Place(S, [t \in S |-> head + 1], to, failed)
  /\ UNCHANGED <<solid, reorgs>>

\* Blocks above the last solidified one are replaced: what was in them is in another
\* of them, or waits.
Reorganise ==
  /\ reorgs < MaxReorgs
  /\ \E b \in solid + 1 .. head :
       LET S == {t \in Transfers : mined[t] >= b}
       IN  /\ S # {}
           /\ \E at \in [S -> {0} \cup b .. head] : Place(S, at, [t \in S |-> dest[t]], {})
  /\ reorgs' = reorgs + 1
  /\ UNCHANGED <<head, solid>>

Solidify ==
  /\ solid < head
  /\ solid' = solid + 1
  /\ UNCHANGED <<custodyVars, head, mined, ok, dest, reorgs, recordVars, scanVars, looked, ended>>

(* Custody: trades and obligations take and leave addresses. *)

TakeAddress ==
  /\ \/ \E a \in Addresses : Import(a)
     \/ \E s \in Subjects, a \in Addresses : Allocate(s, a)
  /\ UNCHANGED <<chainVars, recordVars, scanVars, looked, ended>>

\* What arrived at an address and was not recorded when it leaves the watch.
LeaveWatch ==
  /\ \E a \in Addresses :
       /\ CoolDown(a) \/ Retire(a)
       /\ unwatched' = unwatched \cup {t \in Transfers : dest[t] = a /\ rec[t] = "NONE"}
  /\ UNCHANGED <<chainVars, rec, claim, absent, late, scanVars, looked, ended>>

\* Defect: only the first client leg found is detached.
DetachedOne(s) ==
  IF \A t \in Transfers : claim[t] # s \/ rec[t] # "DETECTED" THEN claim
  ELSE [claim EXCEPT ![CHOOSE t \in Transfers : claim[t] = s /\ rec[t] = "DETECTED"] = Nobody]
\* releaseCommitments: the detected client legs fail, and their transfers are detached.
Detached(s) == [t \in Transfers |-> IF claim[t] = s /\ rec[t] = "DETECTED" THEN Nobody ELSE claim[t]]

\* A trade is cancelled: its detected legs fail and its address is released.
CancelTrade(s) ==
  /\ s \in Trades /\ Release(s)
  /\ claim' = Detached(s)
  /\ ended' = ended \cup {s}
  /\ UNCHANGED <<chainVars, rec, absent, unwatched, late, scanVars, looked>>

\* A trade completes: its address is released and no leg is touched.
CompleteTrade(s) ==
  /\ s \in Trades /\ Release(s)
  /\ \E t \in Transfers : claim[t] = s /\ rec[t] = "CONFIRMED"
  /\ UNCHANGED <<chainVars, recordVars, scanVars, looked, ended>>

\* A route obligation is cancelled with its trade: the deliveries recorded on its way stay
\* as they are, and so does its address.
CancelObligation(s) ==
  /\ s \in Obligations \ ended
  /\ ended' = ended \cup {s}
  /\ UNCHANGED <<custodyVars, chainVars, recordVars, scanVars, looked>>

\* Its address is released by the order it belongs to, once that ended.
CloseDelivery(s) ==
  /\ s \in Obligations /\ Release(s)
  /\ UNCHANGED <<chainVars, recordVars, scanVars, looked, ended>>

(* Scanning. *)

\* The heads from the first provider that answers, which may be behind; the cursor,
\* created if need be; then the watched addresses.
Begin(r) ==
  /\ ~run[r].busy
  /\ \E h \in Greatest(0, head - Lag) .. head :
       LET at   == IF cursor = NoCursor THEN Greatest(h - Lookback, 0) ELSE cursor
           from == Greatest(at - Overlap, 0)
           to   == Least(h, from + Window)
       IN  /\ cursor' = at
           /\ run' = [run EXCEPT ![r] = [busy |-> TRUE, from |-> from,
                                        to |-> to, left |-> WatchList, proven |-> to, work |-> 0, todo |-> {}]]
           /\ unwatched' = unwatched \cup {t \in Transfers : /\ cursor = NoCursor /\ rec[t] = "NONE"
                                                            /\ 0 < mined[t] /\ mined[t] < from}
  /\ UNCHANGED <<custodyVars, chainVars, rec, claim, absent, late, looked, ended>>

\* A run goes on when all it had to record of the last address is recorded.
Through(r) == \A t \in run[r].todo : rec[t] # "NONE"

\* One address: the answer of the providers, and the transfers to record from it.
Read(r, a) ==
  /\ a \in run[r].left /\ Through(r)
  /\ \E x \in Reads(a, run[r].from, run[r].to) : \E N \in FirstNew(x, Budget - run[r].work) :
       run' = [run EXCEPT ![r] = IF N # New(x) THEN Stopped(@, a, x, N) ELSE WentOn(@, a, x, N)]
  /\ UNCHANGED <<custodyVars, chainVars, recordVars, cursor, looked, ended>>

\* advanceCursorInTx: never backwards.
Advance(r) ==
  /\ run[r].busy /\ run[r].left = {} /\ Through(r)
  /\ cursor' = Greatest(cursor, run[r].proven)
  /\ run' = [run EXCEPT ![r] = IdleReading]
  /\ UNCHANGED <<custodyVars, chainVars, recordVars, looked, ended>>

\* The worker stops, or a command of the run is refused; what it recorded stays.
Abort(r) ==
  /\ run[r].busy
  /\ run' = [run EXCEPT ![r] = IdleReading]
  /\ UNCHANGED <<custodyVars, chainVars, recordVars, cursor, looked, ended>>

(* Recording a transfer: by a run, or handed over by the desk. *)

\* What a command is started for: a run's next transfer, or one the desk gives the hash of.
\* For a transfer that has a row it would only find that row.
ToRecord(t) ==
  /\ rec[t] = "NONE"
  /\ (\E r \in Runs : t \in run[r].todo) \/ (mined[t] # 0 /\ ok[t] /\ dest[t] \in Known)

\* The command reads the assignment of the address, before any lock.
LookUp(t) ==
  /\ ToRecord(t) /\ Cardinality(looked) < MaxCommands
  /\ looked' = looked \cup {[t |-> t, who |-> HolderOf(dest[t])]}
  /\ UNCHANGED <<custodyVars, chainVars, recordVars, scanVars, ended>>

\* Then it takes the locks and writes; a transfer that has a row is left as it is.
RecordDeposit(c) ==
  /\ c \in looked
  /\ looked' = looked \ {c}
  /\ IF rec[c.t] # "NONE" THEN UNCHANGED recordVars
     ELSE /\ rec' = [rec EXCEPT ![c.t] = "DETECTED"]
          /\ \E s \in PaysFor(c.who) : claim' = [claim EXCEPT ![c.t] = s]
          /\ late' = IF c.who \in Trades \cap ended THEN late \cup {c.t} ELSE late
          /\ unwatched' = unwatched \ {c.t}
          /\ UNCHANGED absent
  /\ UNCHANGED <<custodyVars, chainVars, scanVars, ended>>

\* The process stops, or the command is refused: nothing was written.
GiveUp(c) ==
  /\ c \in looked
  /\ looked' = looked \ {c}
  /\ UNCHANGED <<custodyVars, chainVars, recordVars, scanVars, ended>>

(* What becomes of a detected transfer. *)

\* The block of a transfer is final for the providers that are asked.
Final(t) == mined[t] # 0 /\ mined[t] <= solid

\* What is let go with a transfer that came to nothing: only a client leg is reverted, the
\* recorded delivery of an obligation is not.
LetGo(t) == IF claim[t] \in Trades THEN [claim EXCEPT ![t] = Nobody] ELSE claim

\* runTronConfirm: anything but a final answer changes nothing, and a transfer that pays
\* for a cancelled trade or obligation is refused with all the verifier wrote.
Confirm(t) ==
  /\ rec[t] = "DETECTED" /\ Final(t)
  /\ IF ok[t] THEN /\ claim[t] \notin ended
                   /\ rec' = [rec EXCEPT ![t] = "CONFIRMED"] /\ UNCHANGED claim
              ELSE rec' = [rec EXCEPT ![t] = "FAILED"] /\ claim' = LetGo(t)
  /\ UNCHANGED <<custodyVars, chainVars, absent, unwatched, late, scanVars, looked, ended>>

\* The desk reverts a client leg (revertFirstLeg) or fails a recorded delivery
\* (failRouteSettlement); the transfer stays what the chain says.
Unclaim(t) ==
  /\ claim[t] # Nobody /\ rec[t] # "CONFIRMED"
  /\ claim' = [claim EXCEPT ![t] = Nobody]
  /\ UNCHANGED <<custodyVars, chainVars, rec, absent, unwatched, late, scanVars, looked, ended>>

\* The sweep takes one row at a time; it asks every provider outside of any transaction.
AskAbsent(t) ==
  /\ rec[t] = "DETECTED" /\ mined[t] = 0 /\ absent = {}
  /\ absent' = {t}
  /\ UNCHANGED <<custodyVars, chainVars, rec, claim, unwatched, late, scanVars, looked, ended>>

\* Defect: the state is not looked at again.
OrphanableUnread(t) == t \in absent
\* markCryptoOrphaned reads the state again under the locks.
Orphanable(t) == t \in absent /\ rec[t] = "DETECTED"
Orphan(t) ==
  /\ t \in absent
  /\ absent' = {}
  /\ IF Orphanable(t)
     THEN rec' = [rec EXCEPT ![t] = "ORPHANED"] /\ claim' = LetGo(t)
     ELSE UNCHANGED <<rec, claim>>
  /\ UNCHANGED <<custodyVars, chainVars, unwatched, late, scanVars, looked, ended>>

-----------------------------------------------------------------------------
World   == Mine \/ Reorganise \/ Solidify
Ending(s) == CancelTrade(s) \/ CompleteTrade(s) \/ CancelObligation(s) \/ CloseDelivery(s)
Custom  == TakeAddress \/ LeaveWatch \/ \E s \in Subjects : Ending(s)
Scan(r) == Begin(r) \/ (\E a \in Known : Read(r, a)) \/ Advance(r) \/ Abort(r)
Recording == (\E t \in Transfers : LookUp(t)) \/ \E c \in looked : RecordDeposit(c) \/ GiveUp(c)
FollowUp(t) == Confirm(t) \/ Unclaim(t) \/ AskAbsent(t) \/ Orphan(t)

ScannerNext ==
  \/ World \/ Custom \/ Recording
  \/ \E r \in Runs : Scan(r)
  \/ \E t \in Transfers : FollowUp(t)

ScannerSpec == ScannerInit /\ [][ScannerNext]_scannerVars

-----------------------------------------------------------------------------
\* The state is well typed; an address has one holder (OneHolder); a transfer only ever
\* pays for a subject that was given the address it went to; and a cancelled trade keeps
\* no claim on money that is not confirmed (FI-24), but for what a command recorded that had
\* read its address before (README, "Seen while modelling").
ClaimsAreOwn ==
  /\ ScannerTypeOK /\ OneHolder
  /\ \A t \in Transfers : claim[t] # Nobody =>
       /\ rec[t] # "NONE" /\ assigned[claim[t]] = dest[t]
       /\ claim[t] \in Trades => rec[t] \in {"DETECTED", "CONFIRMED"}
       /\ claim[t] \in Trades \cap ended /\ rec[t] = "DETECTED" => t \in late

\* Who has let go of its address (D-02) gains nothing more from it, whoever holds it next
\* and however late a transfer comes: what pays for it, or is being recorded for it by a
\* command that had read the address before, only gets less.
Touching(s) == {t \in Transfers : claim[t] = s \/ [t |-> t, who |-> s] \in looked}
ReleasedGainsNothing == [][\A s \in released : Touching(s)' \subseteq Touching(s)]_scannerVars

\* A final transfer at a watched address is recorded before the scanner is past it for
\* good: the cursor less the overlap every run reads again.  Whatever budget a run had,
\* whichever provider failed it, and however two runs and a reorganisation fall.
NothingPassed ==
  \A t \in Transfers \ unwatched :
    Final(t) /\ ok[t] /\ mined[t] < cursor - Overlap => rec[t] # "NONE"

\* Money is the exchange's for good once it is confirmed (FI-24): its block is final and
\* nothing takes the record or the claim back, not even a sweep that was told before
\* that nobody knows the transfer.
ConfirmedStays ==
  [][\A t \in Transfers : rec[t] = "CONFIRMED" =>
       rec'[t] = "CONFIRMED" /\ claim'[t] = claim[t] /\ Final(t)' /\ ok'[t]]_scannerVars
=============================================================================
