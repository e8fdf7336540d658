---------------------------- MODULE AnswerCustody ----------------------------
(***************************************************************************)
(* What the offline-first fillout store promises about a participant's     *)
(* answers, stated without engines, ledgers, requests or acknowledgements: *)
(* an answer is captured on the device, is copied to the server, and       *)
(* leaves the device only when the server has it.  FilloutSync is shown to *)
(* implement this specification.                                           *)
(***************************************************************************)
CONSTANT Rec            \* the records a participant can produce

VARIABLES onDevice,     \* records with a durable row in IndexedDB
          onServer      \* records the server durably holds

cvars == <<onDevice, onServer>>

CustodyInit == onDevice = {} /\ onServer = {}

(* A record is written to the device once; it was never there before. *)
Capture(r) ==
    /\ r \notin onDevice \cup onServer
    /\ onDevice' = onDevice \cup {r}
    /\ UNCHANGED onServer

(* The server commits a batch: only records that were captured. *)
Deliver(batch) ==
    /\ batch \subseteq onDevice \cup onServer
    /\ onServer' = onServer \cup batch
    /\ UNCHANGED onDevice

(* The device drops a batch of records: only those the server holds. *)
Release(batch) ==
    /\ batch \subseteq onDevice \cap onServer
    /\ onDevice' = onDevice \ batch
    /\ UNCHANGED onServer

CustodyNext ==
    \/ \E r \in Rec : Capture(r)
    \/ \E batch \in SUBSET Rec : Deliver(batch) \/ Release(batch)

CustodySpec == CustodyInit /\ [][CustodyNext]_cvars
=============================================================================
