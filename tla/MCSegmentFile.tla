---------------------------- MODULE MCSegmentFile ----------------------------
(***************************************************************************)
(* The two models of one segment file in one run: its bytes, as FrameScan  *)
(* walks over them, and its shared offset, as ActiveFile moves it.  They   *)
(* share nothing, so a behaviour is of one or of the other.  The readers   *)
(* are interchangeable.                                                    *)
(***************************************************************************)
EXTENDS ActiveFile, TLC

CONSTANTS MaxWrites, MaxEvents, BatchIds

ASSUME ScanAssumption == MaxWrites \in Nat \ {0} /\ MaxEvents \in Nat \ {0}

VARIABLES
    model,  \* which of the two moves
    writes, hurt, fate, pos, validBytes, nextOffset, pending, stop

scanVars == <<writes, hurt, fate, pos, validBytes, nextOffset, pending, stop>>

Scan == INSTANCE FrameScan

Interchangeable == Permutations(Readers)

\* A segment that is not scanned.
NoScan ==
    /\ writes = <<[kind |-> "system", n |-> 0, batch |-> "none"]>>
    /\ hurt = 0
    /\ fate = Scan!Unhurt(writes[1])
    /\ pos = 0
    /\ validBytes = 0
    /\ nextOffset = 0
    /\ pending = Scan!NoBatch
    /\ stop = ""

FileInit ==
    /\ Init
    /\ \/ model = "offset" /\ NoScan
       \/ model = "scan" /\ Scan!Init

FileNext ==
    /\ UNCHANGED model
    /\ \/ model = "offset" /\ Next /\ UNCHANGED scanVars
       \/ model = "scan" /\ Scan!Next /\ UNCHANGED vars

FileSpec == FileInit /\ [][FileNext]_<<model, vars, scanVars>>

\* Recovery is all or nothing (scan_records): the valid prefix of a segment is
\* exactly the writes before the first hurt one, whatever follows it.
AllOrNothing == Scan!AllOrNothing
=============================================================================
