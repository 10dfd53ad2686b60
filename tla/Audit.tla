-------------------------------- MODULE Audit --------------------------------
(***************************************************************************)
(* The audit log: entries under consecutive ids, the head of their hash     *)
(* chain, and pruning by a retention policy.  SHA-256 is taken to be        *)
(* injective: a chain hash is the sequence of the payloads hashed into it,  *)
(* and CHAIN_ORIGIN the empty sequence.  Queries and exports only read.     *)
(***************************************************************************)
EXTENDS Integers, Sequences, FiniteSets

CONSTANTS
  Events,      \* what an entry records besides its id and its time
  Policies,    \* retention policies the admin chooses
  EarlyCalls,  \* whether log_event may come before initialize
  MaxSeq,      \* bounds the ids given out
  MaxTime,     \* bounds the ledger timestamp
  None

RetentionPolicy == [max_entries : Nat, max_age_seconds : Nat]
Unbounded == [max_entries |-> 0, max_age_seconds |-> 0]

AuditAssumption ==
  /\ Policies \subseteq RetentionPolicy
  /\ EarlyCalls \in BOOLEAN
  /\ MaxSeq \in Nat /\ MaxTime \in Nat
  /\ None \notin [seq : Nat, at : Nat, what : Events]
  /\ None \notin Seq([seq : Nat, at : Nat, what : Events])

VARIABLES
  initialized,  \* Admin is set
  policy,       \* RetentionPolicy
  nextSeq,      \* NextSeq: in fact the last id given out
  firstSeq,     \* FirstSeq
  entry,        \* Entry(seq), or None
  head,         \* RollingChecksum, or None
  now           \* the ledger timestamp

settings == <<initialized, policy>>
vars == <<settings, nextSeq, firstSeq, entry, head, now>>

Seqs == 1..MaxSeq
Payload == [seq : Seqs, at : 0..MaxTime, what : Events]
Origin == <<>>

TypeOK ==
  /\ initialized \in BOOLEAN /\ policy \in Policies \cup {Unbounded}
  /\ nextSeq \in 0..MaxSeq /\ firstSeq \in 1..(nextSeq + 1)
  /\ entry \in [Seqs -> Payload \cup {None}]
  /\ head \in Seq(Payload) \cup {None}
  /\ now \in 0..MaxTime

Init ==
  /\ initialized = FALSE /\ policy = Unbounded
  /\ nextSeq = 0 /\ firstSeq = 1
  /\ entry = [s \in Seqs |-> None]
  /\ head = None
  /\ now = 0

-----------------------------------------------------------------------------
(* Entries and RollingChecksum stay as they are. *)
Initialize ==
  /\ ~initialized
  /\ initialized' = TRUE
  /\ nextSeq' = 0 /\ firstSeq' = 1
  /\ UNCHANGED <<policy, entry, head, now>>

SetRetentionPolicy(p) ==
  /\ initialized
  /\ policy' = p
  /\ UNCHANGED <<initialized, nextSeq, firstSeq, entry, head, now>>

ChainHash(prev, payload) == Append(prev, payload)

LogEvent(what) ==
  LET seq == nextSeq + 1
      payload == [seq |-> seq, at |-> now, what |-> what]
      prev == IF seq = 1 \/ head = None THEN Origin ELSE head
  IN
  /\ initialized \/ EarlyCalls
  /\ seq <= MaxSeq
  /\ entry' = [entry EXCEPT ![seq] = payload]
  /\ nextSeq' = seq
  /\ head' = ChainHash(prev, payload)
  /\ UNCHANGED <<settings, firstSeq, now>>

(* The chain hash of the entries first..nextSeq, from the origin. *)
Recomputed(first) == [i \in 1..(nextSeq + 1 - first) |-> entry[first + i - 1]]

(* full_recompute_integrity *)
FullRecompute ==
  /\ \A s \in firstSeq..nextSeq : entry[s] # None
  /\ head # None => head = Recomputed(firstSeq)

-----------------------------------------------------------------------------
(* prune_old *)

Older(s) == entry[s] # None /\ entry[s].at < now - policy.max_age_seconds

(* The first id that survives the age limit: the walk ends at the first     *)
(* entry that is young enough.                                              *)
AgeFloor ==
  IF policy.max_age_seconds = 0 THEN firstSeq
  ELSE firstSeq
       + Cardinality({s \in firstSeq..nextSeq : \A r \in firstSeq..s : Older(r)})

(* Mutant: the count is taken over what was there before the age limit.     *)
CountFloorBefore(f) ==
  LET surplus == nextSeq + 1 - firstSeq - policy.max_entries IN
  IF policy.max_entries > 0 /\ surplus > 0 THEN f + surplus ELSE f

(* Then as many more as the count limit asks for. *)
CountFloor(f) ==
  LET surplus == nextSeq + 1 - f - policy.max_entries IN
  IF policy.max_entries > 0 /\ surplus > 0 THEN f + surplus ELSE f

(* Mutant: the head is left as it was.                                      *)
PruneKeepingHead ==
  LET first == CountFloor(AgeFloor) IN
  /\ initialized /\ policy # Unbounded
  /\ entry' = [s \in Seqs |-> IF s \in firstSeq..(first - 1) THEN None ELSE entry[s]]
  /\ firstSeq' = first
  /\ UNCHANGED <<settings, nextSeq, head, now>>

(* The head is hashed anew.  On an empty log nextSeq - firstSeq + 1 wraps    *)
(* around u64 to 0 (the release profile does not check), and nothing is cut. *)
PruneOld ==
  LET first == CountFloor(AgeFloor) IN
  /\ initialized /\ policy # Unbounded
  /\ entry' = [s \in Seqs |-> IF s \in firstSeq..(first - 1) THEN None ELSE entry[s]]
  /\ firstSeq' = first
  /\ head' = Recomputed(first)
  /\ UNCHANGED <<settings, nextSeq, now>>

Tick ==
  /\ now < MaxTime
  /\ now' = now + 1
  /\ UNCHANGED <<settings, nextSeq, firstSeq, entry, head>>

Next ==
  \/ Initialize
  \/ \E p \in Policies : SetRetentionPolicy(p)
  \/ \E e \in Events : LogEvent(e)
  \/ PruneOld
  \/ Tick

Spec == Init /\ [][Next]_vars

-----------------------------------------------------------------------------
(* Properties *)

(***************************************************************************)
(* A log that nobody has tampered with verifies: whatever was logged and    *)
(* pruned, under whatever policies, the stored head is the one recomputed   *)
(* from the retained entries, and none of these is missing.                 *)
(***************************************************************************)
ChainIntact == FullRecompute

(***************************************************************************)
(* Pruning cuts what the policy in force forbids and no more: the entries   *)
(* kept are the longest run of the newest ones that obeys it.               *)
(***************************************************************************)
Obeys(f) ==
  /\ policy.max_entries > 0 => nextSeq + 1 - f <= policy.max_entries
  /\ policy.max_age_seconds > 0 =>
       \A s \in f..nextSeq : entry[s].at >= now - policy.max_age_seconds

PruneExact ==
  [][firstSeq' # firstSeq \/ PruneOld =>
       /\ firstSeq' \in firstSeq..(nextSeq + 1) /\ Obeys(firstSeq')
       /\ \A f \in firstSeq..(nextSeq + 1) : Obeys(f) => f >= firstSeq']_vars
=============================================================================
