-------------------------- MODULE CollectivePermute --------------------------
(***************************************************************************)
(* The collective-permute thunk of                                          *)
(* src/xla/service/gpu/ccl_collective_permute_thunk.cc.                     *)
(*                                                                         *)
(* GetCclCollectivePermuteConfig turns the op's source_target_pairs into    *)
(* id_to_source_target, a map from an id to the optional source it         *)
(* receives from and the optional target it sends to.  At run time every   *)
(* participant looks up its own entry (RunCclCollective), issues           *)
(* sycl_collective_permute, which sends its buffer to the target and       *)
(* receives the source's buffer into its destination, and zeroes the       *)
(* destination when it has no source (RunCollectivePermute).               *)
(*                                                                         *)
(* Each participant's buffer carries Payload(id); the network is a set of  *)
(* messages, delivered in any order and never lost.                        *)
(***************************************************************************)
EXTENDS Naturals, Sequences, FiniteSets, SequencesExt, Functions

CONSTANTS
    ReplicaCount,     \* replica_count
    PartitionCount    \* partition_count

None == -1            \* an empty std::optional<int64_t>
Uninit == -1          \* a destination buffer nothing has written yet
Payload(id) == id + 1 \* the contents of participant id's source buffer

\* GetGroupMode: GetCollectiveOpGroupMode(has channel_id, nullopt) is
\* cross-partition with a channel id and cross-replica without.
GetGroupMode(channel) == IF channel THEN "cross_partition" ELSE "cross_replica"

\* num_participants: the ids of the one replica group.
Participants(channel) ==
    0..((IF GetGroupMode(channel) = "cross_replica"
         THEN ReplicaCount ELSE PartitionCount) - 1)

NoEntry == [source |-> None, target |-> None]

\* One iteration of the loop over source_target_pairs:
\* insert({target, {}}).first->second.source = source, then
\* insert({source, {}}).first->second.target = target.
Upsert(map, id, field, v) ==
    IF id \in DOMAIN map THEN [map EXCEPT ![id][field] = v]
    ELSE map @@ (id :> [NoEntry EXCEPT ![field] = v])

\* Mutation of AddPair: source and target stored the wrong way round.
AddPairSwapped(map, pair) ==
    Upsert(Upsert(map, pair[2], "target", pair[1]), pair[1], "source", pair[2])

AddPair(map, pair) ==
    Upsert(Upsert(map, pair[2], "source", pair[1]), pair[1], "target", pair[2])

\* GetCclCollectivePermuteConfig: id_to_source_target.
Config(pairs) == FoldLeft(AddPair, <<>>, pairs)

\* CclCollectivePermuteConfig::GetSourceTarget: the id's entry, or an
\* entry with neither source nor target.
GetSourceTarget(map, id) == IF id \in DOMAIN map THEN map[id] ELSE NoEntry

\* Mutation of IsDegenerate: the size check dropped.
IsDegenerateNoSize(pairs, channel) ==
    \A i \in DOMAIN pairs : pairs[i][1] = pairs[i][2]

\* IsDegenerate: as many pairs as participants, all of them identities.
IsDegenerate(pairs, channel) ==
    /\ Len(pairs) = Cardinality(Participants(channel))
    /\ \A i \in DOMAIN pairs : pairs[i][1] = pairs[i][2]

\* The pair lists the HLO verifier admits: ids of the group, each at most
\* once as a source and at most once as a target.
ValidPairLists(channel) ==
    LET P == Participants(channel)
    IN {s \in SeqOf(P \X P, Cardinality(P)) :
          /\ IsInjective([i \in DOMAIN s |-> s[i][1]])
          /\ IsInjective([i \in DOMAIN s |-> s[i][2]])}

-----------------------------------------------------------------------------
VARIABLES
    channel,   \* op.getChannelId().has_value()
    pairs,     \* op.getSourceTargetPairs()
    pc,        \* per participant: "start", "recv", "zero", "done" or "failed"
    dest,      \* per participant: its destination buffer
    net        \* messages in flight: [from, to, data]

vars == <<channel, pairs, pc, dest, net>>

Entry(id) == GetSourceTarget(Config(pairs), id)

\* Mutation of Start: the destination zeroed when there is no target.
StartZeroOnNoTarget(id) ==
    /\ pc[id] = "start"
    /\ LET st == Entry(id)
       IN /\ net' = IF st.target # None
                    THEN net \cup {[from |-> id, to |-> st.target, data |-> Payload(id)]}
                    ELSE net
          /\ pc' = [pc EXCEPT ![id] = IF st.target # None THEN "recv" ELSE "zero"]
    /\ UNCHANGED <<channel, pairs, dest>>

\* RunCclCollective and the send half of sycl_collective_permute: look up
\* the entry of current_id, send the source buffer to the target if there
\* is one; then wait for the source's data, or zero the destination.
Start(id) ==
    /\ pc[id] = "start"
    /\ LET st == Entry(id)
       IN /\ net' = IF st.target # None
                    THEN net \cup {[from |-> id, to |-> st.target, data |-> Payload(id)]}
                    ELSE net
          /\ pc' = [pc EXCEPT ![id] = IF st.source # None THEN "recv" ELSE "zero"]
    /\ UNCHANGED <<channel, pairs, dest>>

\* RunCclCollective returns an error status before it issues anything:
\* ConvertToDeviceBuffers, the buffer-count TF_RET_CHECK, GetGlobalDeviceId
\* or LogicalIdForDevice failed.  Its peers are not told.
StartFails(id) ==
    /\ pc[id] = "start"
    /\ pc' = [pc EXCEPT ![id] = "failed"]
    /\ UNCHANGED <<channel, pairs, dest, net>>

\* The receive half of sycl_collective_permute: the source's buffer lands
\* in the destination.
Receive(id) ==
    /\ pc[id] = "recv"
    /\ \E m \in net :
          /\ m.to = id /\ m.from = Entry(id).source
          /\ dest' = [dest EXCEPT ![id] = m.data]
          /\ net' = net \ {m}
    /\ pc' = [pc EXCEPT ![id] = "done"]
    /\ UNCHANGED <<channel, pairs>>

\* stream.ThenMemZero(&dest_addr, ...) when source_id is empty.
MemZero(id) ==
    /\ pc[id] = "zero"
    /\ dest' = [dest EXCEPT ![id] = 0]
    /\ pc' = [pc EXCEPT ![id] = "done"]
    /\ UNCHANGED <<channel, pairs, net>>

Init ==
    /\ channel \in BOOLEAN
    /\ pairs \in ValidPairLists(channel)
    /\ pc = [id \in Participants(channel) |-> "start"]
    /\ dest = [id \in Participants(channel) |-> Uninit]
    /\ net = {}

\* A step of participant id (its thunk on its own stream).
Step(id) == id \in DOMAIN pc /\ (Start(id) \/ StartFails(id) \/ Receive(id) \/ MemZero(id))

Next == \E id \in DOMAIN pc : Step(id)

Spec == Init /\ [][Next]_vars

-----------------------------------------------------------------------------
(* Properties                                                               *)

\* The reference meaning of the pairs: whom id receives from and sends to.
RefSource(id) == IF \E i \in DOMAIN pairs : pairs[i][2] = id
                 THEN pairs[CHOOSE i \in DOMAIN pairs : pairs[i][2] = id][1]
                 ELSE None
RefTarget(id) == IF \E i \in DOMAIN pairs : pairs[i][1] = id
                 THEN pairs[CHOOSE i \in DOMAIN pairs : pairs[i][1] = id][2]
                 ELSE None

\* GetCclCollectivePermuteConfig and GetSourceTarget give every participant
\* exactly the source and target the pairs name for it, whatever order the
\* pairs come in.
ConfigMatchesPairs ==
    \A id \in DOMAIN pc : Entry(id) = [source |-> RefSource(id), target |-> RefTarget(id)]

\* An op IsDegenerate calls degenerate, and which is therefore not run as a
\* permute, is the identity: every participant receives its own buffer.
DegenerateIsIdentity ==
    IsDegenerate(pairs, channel) => \A id \in DOMAIN pc : RefSource(id) = id

\* A participant that finished RunCollectivePermute holds its source's
\* buffer, or zeros when the pairs give it no source.
PermuteResult ==
    \A id \in DOMAIN pc :
        pc[id] = "done" =>
            dest[id] = IF RefSource(id) = None THEN 0 ELSE Payload(RefSource(id))

=============================================================================
