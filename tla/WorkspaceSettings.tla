-------------------------- MODULE WorkspaceSettings --------------------------
(***************************************************************************)
(* The configuration form of the workspace page: a copy of a cached query, *)
(* and the mutation that saves it and invalidates the query.               *)
(***************************************************************************)
EXTENDS Naturals

CONSTANTS Configs,
          MaxSaves,            \* bound: saves
          WsIdle, WsAsked, NoWsData

ASSUME SettingsAssumption ==
  MaxSaves \in Nat /\ {WsIdle, WsAsked, NoWsData} \cap Configs = {} /\ WsIdle # WsAsked

VARIABLES
  wsConfig,            \* the server's configuration
  wsQuery,             \* [data, get]: the cache; WsIdle, WsAsked or the answer on its way
  wsForm, saveMut,     \* the form; WsIdle, the form being saved, or WsAsked: saved, unanswered
  saves,
  edited, failed   \* history: an edit not sent since; a request failed since the last save

wsVars == <<wsConfig, wsQuery, wsForm, saveMut, saves, edited, failed>>

\* Mutant of Invalidated: the request under way is joined.
Joined(q) == IF q.get = WsIdle THEN [q EXCEPT !.get = WsAsked] ELSE q

\* A query with data starts over when it is invalidated; without data the request
\* under way is joined.
Invalidated(q) ==
  IF q.get = WsIdle \/ q.data # NoWsData THEN [q EXCEPT !.get = WsAsked] ELSE q

WsInit ==
  /\ wsConfig \in Configs /\ wsQuery = [data |-> NoWsData, get |-> WsAsked]
  /\ wsForm = NoWsData /\ saveMut = WsIdle /\ saves = 0
  /\ edited = FALSE /\ failed = FALSE

ServeConfig ==
  /\ wsQuery.get = WsAsked /\ wsQuery' = [wsQuery EXCEPT !.get = wsConfig]
  /\ UNCHANGED <<wsConfig, wsForm, saveMut, edited, failed, saves>>

\* The effect copies new data over the form, and over what the user was typing.
LandConfig ==
  /\ wsQuery.get \in Configs
  /\ wsQuery' = [data |-> wsQuery.get, get |-> WsIdle]
  /\ IF wsQuery.get # wsQuery.data THEN wsForm' = wsQuery.get /\ edited' = FALSE
     ELSE UNCHANGED <<wsForm, edited>>
  /\ UNCHANGED <<wsConfig, saveMut, failed, saves>>

\* Retried on the next focus.
FailConfig ==
  /\ wsQuery.get \in Configs
  /\ wsQuery' = [wsQuery EXCEPT !.get = IF wsQuery.data = NoWsData THEN WsAsked ELSE WsIdle]
  /\ failed' = TRUE /\ UNCHANGED <<wsConfig, wsForm, saveMut, edited, saves>>

\* The window gets the focus when the data is 30 s old.
RefetchConfig ==
  /\ wsQuery.get = WsIdle /\ wsQuery' = [wsQuery EXCEPT !.get = WsAsked]
  /\ UNCHANGED <<wsConfig, wsForm, saveMut, edited, failed, saves>>

EditConfig ==
  /\ wsForm # NoWsData /\ wsForm' \in Configs \ {wsForm} /\ edited' = TRUE
  /\ UNCHANGED <<wsConfig, wsQuery, saveMut, failed, saves>>

\* The button: disabled while saving, or over a key that is not 32 hex digits.
SaveChanges ==
  /\ wsForm # NoWsData /\ saveMut = WsIdle /\ saves < MaxSaves /\ saves' = saves + 1
  /\ saveMut' = wsForm /\ edited' = FALSE /\ failed' = FALSE
  /\ UNCHANGED <<wsConfig, wsQuery, wsForm>>

StoreConfig ==
  /\ saveMut \in Configs /\ saveMut' = WsAsked /\ wsConfig' = saveMut
  /\ UNCHANGED <<wsQuery, wsForm, edited, failed, saves>>

\* onSuccess: invalidate.
SaveAnswered ==
  /\ saveMut = WsAsked /\ saveMut' = WsIdle /\ wsQuery' = Invalidated(wsQuery)
  /\ UNCHANGED <<wsConfig, wsForm, edited, failed, saves>>

\* Nothing on the page says so.
SaveFails ==
  /\ saveMut # WsIdle /\ saveMut' = WsIdle /\ failed' = TRUE
  /\ UNCHANGED <<wsConfig, wsQuery, wsForm, edited, saves>>

WsNext ==
  \/ ServeConfig \/ LandConfig \/ FailConfig \/ RefetchConfig \/ EditConfig
  \/ SaveChanges \/ StoreConfig \/ SaveAnswered \/ SaveFails
WsSpec == WsInit /\ [][WsNext]_wsVars

-----------------------------------------------------------------------------
WsFlagsOK == edited \in BOOLEAN /\ failed \in BOOLEAN

WsTypeOK ==
  /\ wsConfig \in Configs /\ saves \in 0 .. MaxSaves
  /\ wsQuery \in [data : Configs \cup {NoWsData}, get : Configs \cup {WsIdle, WsAsked}]
  /\ wsForm \in Configs \cup {NoWsData} /\ saveMut \in Configs \cup {WsIdle, WsAsked}
  /\ WsFlagsOK

\* With nothing under way, a form that was not edited since it was saved, and no
\* request that failed since, shows the configuration that the server has: a
\* refetch that a save overtook does not bring the old one back.
QuietFormIsServers ==
  wsQuery.get = WsIdle /\ saveMut = WsIdle /\ ~edited /\ ~failed /\ wsForm # NoWsData =>
    wsForm = wsConfig
=============================================================================
