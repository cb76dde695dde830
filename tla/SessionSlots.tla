---------------------------- MODULE SessionSlots -----------------------------
(***************************************************************************)
(* What the agent promises about session ids, without the running table,   *)
(* the record store, threads or cancellation: an id is a slot.  At most one *)
(* session holds it, only the holder's transport is ever open, and a        *)
(* session that let go of its slot, or lost its transport, never has one    *)
(* again.  SessionManager implements this for callers that wait for each    *)
(* answer (SessionManager!ImplementsSlots).                                *)
(***************************************************************************)
CONSTANTS Ids,      \* session identifiers
          Sessions  \* the sessions callers ask for

VARIABLES holders,  \* the session that holds each id: {} or a singleton
          phase     \* how far each session's transport has come

Phases == {"new", "reserved", "open", "over"}

SlotsInit ==
  /\ holders = [i \in Ids |-> {}]
  /\ phase = [r \in Sessions |-> "new"]

\* A start takes a free slot,
Reserve(i, r) ==
  /\ holders[i] = {} /\ phase[r] = "new"
  /\ holders' = [holders EXCEPT ![i] = {r}]
  /\ phase' = [phase EXCEPT ![r] = "reserved"]

\* binds its listener or connects,
OpenTransport(i, r) ==
  /\ holders[i] = {r} /\ phase[r] = "reserved"
  /\ phase' = [phase EXCEPT ![r] = "open"]
  /\ UNCHANGED holders

\* may lose the transport and keep the slot,
EndTransport(i, r) ==
  /\ holders[i] = {r} /\ phase[r] = "open"
  /\ phase' = [phase EXCEPT ![r] = "over"]
  /\ UNCHANGED holders

\* and gives both up at once, when a stop takes it or the start fails.
Release(i, r) ==
  /\ holders[i] = {r}
  /\ holders' = [holders EXCEPT ![i] = {}]
  /\ phase' = [phase EXCEPT ![r] = "over"]

SlotsNext ==
  \E i \in Ids, r \in Sessions :
    Reserve(i, r) \/ OpenTransport(i, r) \/ EndTransport(i, r) \/ Release(i, r)

SlotsSpec == SlotsInit /\ [][SlotsNext]_<<holders, phase>>
=============================================================================
