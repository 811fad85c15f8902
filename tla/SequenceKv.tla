----------------------------- MODULE SequenceKv ------------------------------
(***************************************************************************)
(* What the scheduler (flux/engine/scheduler.py) and the worker            *)
(* (flux/engine/worker.py) do to the pool and the prefix cache on behalf   *)
(* of one sequence, from its admission to its release.                     *)
(***************************************************************************)
EXTENDS PrefixCache

(* Scheduler._need_tokens: a hit is expected to pay for its tokens.        *)
NeedTokens(kv, s) ==
    IF Hits(kv, s) = {}
    THEN ReservationTokens(s)
    ELSE ReservationTokens(s) - Len(CHOOSE k \in Hits(kv, s) : TRUE)

(* lookup(prompt) for a sequence without a prefix; a miss changes nothing. *)
LookedUp(kv, s) ==
    IF Hits(kv, s) = {} THEN {kv} ELSE UNION {Lookup(kv, s, k) : k \in Hits(kv, s)}

(* The tokens the sequence must hold in blocks of its own.                 *)
OwnTokens(kv, s) == ReservationTokens(s) - Len(kv.key[s])

(* Scheduler._try_allocate: the lookup takes the entry's blocks first and  *)
(* the private blocks come out of what is left; on failure the reference   *)
(* is given back.  Admitted are the results of a success, Refused those of *)
(* a failure.                                                              *)
Admitted(kv, s) ==
    UNION {{Allocate(l, s, ids) : ids \in Reservations(l, OwnTokens(l, s))}
             : l \in LookedUp(kv, s)}

(* Mutant: the reference the failed admission took is not given back.      *)
RefusedKeepingRef(kv, s) ==
    {[l EXCEPT !.key[s] = NoKey]
       : l \in {m \in LookedUp(kv, s) : ~CanAllocate(m, OwnTokens(m, s))}}

Refused(kv, s) ==
    {[ReleaseKey(l, l.key[s]) EXCEPT !.key[s] = NoKey]
       : l \in {m \in LookedUp(kv, s) : ~CanAllocate(m, OwnTokens(m, s))}}

(* Mutant: the blocks the prefix made superfluous are detached, not freed. *)
LateBindLosing(kv, s) ==
    IF kv.key[s] # NoKey
    THEN {kv}
    ELSE UNION {{Detach(l, s, ids)
                   : ids \in Detachable(l, s, BlocksNeeded(Len(l.key[s])))}
                  : l \in LookedUp(kv, s)}

(* worker._bind_prefix_at_prefill: a hit that appeared after admission.    *)
(* The sequence gives back as many of its own blocks as the prefix needs.  *)
LateBind(kv, s) ==
    IF kv.key[s] # NoKey
    THEN {kv}
    ELSE UNION {{Release(Detach(l, s, ids), ids)
                   : ids \in Detachable(l, s, BlocksNeeded(Len(l.key[s])))}
                  : l \in LookedUp(kv, s)}

(* worker._release: the reference, then the private blocks.  prefix_key is *)
(* not cleared.                                                            *)
ReleaseSeq(kv, s) == Free(ReleaseKey(kv, kv.key[s]), s)
=============================================================================
