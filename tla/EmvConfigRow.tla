------------------------------ MODULE EmvConfigRow ------------------------------
(***************************************************************************)
(* A session's row in the simulator page and the dialog that edits its EMV *)
(* response: the row keeps a mirror of the configuration beside the polled *)
(* list, so that a save shows at once.                                     *)
(***************************************************************************)
EXTENDS Naturals

CONSTANTS EmvConfigs,
          MaxEmvSaves,    \* bound: saves, and changes made elsewhere
          NoConfig, EmvIdle, EmvAsked

ASSUME EmvRowAssumption ==
  /\ MaxEmvSaves \in Nat /\ {NoConfig, EmvIdle, EmvAsked} \cap EmvConfigs = {}
  /\ EmvIdle \notin {"sent", "stored"} \X EmvConfigs

VARIABLES
  agentEmv,              \* EmvResponse of the agent's session
  sessionEmv, pollEmv,   \* the list's copy, NoConfig before the first; EmvIdle,
                         \* EmvAsked, or the answer on its way
  localEmvConfig,        \* the row's mirror
  emvModalOpen, cfg,     \* the dialog and its draft
  saving,                \* EmvIdle, or <<sent or stored, configuration>>
  saveError, emvSaves,
  typedCfg,              \* history: the draft as the user last opened or edited it
  trusted                \* history: no save failed, nothing was changed elsewhere, and
                         \* the page was not left between a save and the next list

rowVars == <<agentEmv, sessionEmv, pollEmv, localEmvConfig, emvModalOpen, cfg, saving,
             saveError, emvSaves, typedCfg, trusted>>

RowInit ==
  /\ agentEmv \in EmvConfigs /\ sessionEmv = NoConfig /\ pollEmv = EmvAsked
  /\ localEmvConfig = NoConfig /\ emvModalOpen = FALSE /\ cfg = NoConfig
  /\ saving = EmvIdle /\ saveError = FALSE /\ emvSaves = 0
  /\ typedCfg = NoConfig /\ trusted = TRUE

\* What the badge shows and the dialog opens with.
EffectiveEmv(mirror, listed) == IF mirror # NoConfig THEN mirror ELSE listed

AskList ==
  /\ pollEmv = EmvIdle /\ pollEmv' = EmvAsked
  /\ UNCHANGED <<agentEmv, sessionEmv, localEmvConfig, emvModalOpen, cfg, saving, saveError,
                 emvSaves, typedCfg, trusted>>

ServeList ==
  /\ pollEmv = EmvAsked /\ pollEmv' = agentEmv
  /\ UNCHANGED <<agentEmv, sessionEmv, localEmvConfig, emvModalOpen, cfg, saving, saveError,
                 emvSaves, typedCfg, trusted>>

\* The first list mounts the row, whose mirror starts from it and is never given
\* another; an open dialog starts over when what it was opened with changes.
LandList ==
  /\ pollEmv \in EmvConfigs /\ pollEmv' = EmvIdle /\ sessionEmv' = pollEmv
  /\ localEmvConfig' = IF sessionEmv = NoConfig THEN pollEmv ELSE localEmvConfig
  /\ LET was == EffectiveEmv(localEmvConfig, sessionEmv)
         is == EffectiveEmv(localEmvConfig', sessionEmv')
     IN  cfg' = IF emvModalOpen /\ is # was THEN is ELSE cfg
  /\ UNCHANGED <<agentEmv, emvModalOpen, saving, saveError, emvSaves, typedCfg, trusted>>

OpenEmvModal ==
  /\ sessionEmv # NoConfig /\ ~emvModalOpen /\ emvModalOpen' = TRUE
  /\ cfg' = EffectiveEmv(localEmvConfig, sessionEmv) /\ typedCfg' = cfg'
  /\ UNCHANGED <<agentEmv, sessionEmv, pollEmv, localEmvConfig, saving, saveError, emvSaves, trusted>>

\* The fields stay editable while a save is under way.
EditEmvConfig ==
  /\ emvModalOpen /\ cfg' \in EmvConfigs \ {cfg} /\ typedCfg' = cfg'
  /\ UNCHANGED <<agentEmv, sessionEmv, pollEmv, localEmvConfig, emvModalOpen, saving, saveError,
                 emvSaves, trusted>>

CloseEmvModal ==
  /\ emvModalOpen /\ saving = EmvIdle /\ emvModalOpen' = FALSE
  /\ UNCHANGED <<agentEmv, sessionEmv, pollEmv, localEmvConfig, cfg, saving, saveError, emvSaves,
                 typedCfg, trusted>>

SaveEmvConfig ==
  /\ emvModalOpen /\ saving = EmvIdle /\ emvSaves < MaxEmvSaves /\ emvSaves' = emvSaves + 1
  /\ saving' = <<"sent", cfg>> /\ saveError' = FALSE
  /\ UNCHANGED <<agentEmv, sessionEmv, pollEmv, localEmvConfig, emvModalOpen, cfg, typedCfg, trusted>>

UpdateEmvConfig ==
  /\ saving # EmvIdle /\ saving[1] = "sent"
  /\ agentEmv' = saving[2] /\ saving' = <<"stored", saving[2]>>
  /\ UNCHANGED <<sessionEmv, pollEmv, localEmvConfig, emvModalOpen, cfg, saveError, emvSaves,
                 typedCfg, trusted>>

\* Mutant of EmvConfigSaved: what is mirrored is the draft of now.
EmvConfigSavedDraft ==
  /\ saving # EmvIdle /\ saving[1] = "stored" /\ saving' = EmvIdle
  /\ localEmvConfig' = cfg /\ emvModalOpen' = FALSE
  /\ UNCHANGED <<agentEmv, sessionEmv, pollEmv, cfg, saveError, emvSaves, typedCfg, trusted>>

\* The mirror takes what was sent, and the dialog closes over later edits.
EmvConfigSaved ==
  /\ saving # EmvIdle /\ saving[1] = "stored" /\ saving' = EmvIdle
  /\ localEmvConfig' = saving[2] /\ emvModalOpen' = FALSE
  /\ UNCHANGED <<agentEmv, sessionEmv, pollEmv, cfg, saveError, emvSaves, typedCfg, trusted>>

\* Before or after the agent stored it.
EmvConfigFails ==
  /\ saving # EmvIdle /\ saving' = EmvIdle /\ saveError' = TRUE /\ trusted' = FALSE
  /\ UNCHANGED <<agentEmv, sessionEmv, pollEmv, localEmvConfig, emvModalOpen, cfg, emvSaves, typedCfg>>

\* Another console, or a caller of the API.
ChangedElsewhere ==
  /\ emvSaves < MaxEmvSaves /\ emvSaves' = emvSaves + 1
  /\ agentEmv' \in EmvConfigs \ {agentEmv} /\ trusted' = FALSE
  /\ UNCHANGED <<sessionEmv, pollEmv, localEmvConfig, emvModalOpen, cfg, saving, saveError, typedCfg>>

\* The page is left and shown again while the list is still cached: the new row's
\* mirror starts from that list. The dialog covers the page's links.
ReopenSimulator ==
  /\ sessionEmv # NoConfig /\ ~emvModalOpen
  /\ localEmvConfig' = sessionEmv /\ cfg' = sessionEmv /\ saveError' = FALSE
  /\ trusted' = (trusted /\ sessionEmv = agentEmv)
  /\ UNCHANGED <<agentEmv, sessionEmv, pollEmv, emvModalOpen, saving, emvSaves, typedCfg>>

RowNext ==
  \/ AskList \/ ServeList \/ LandList \/ OpenEmvModal \/ EditEmvConfig \/ CloseEmvModal
  \/ SaveEmvConfig \/ UpdateEmvConfig \/ EmvConfigSaved \/ EmvConfigFails \/ ChangedElsewhere
  \/ ReopenSimulator
RowSpec == RowInit /\ [][RowNext]_rowVars

-----------------------------------------------------------------------------
RowTypeOK ==
  /\ agentEmv \in EmvConfigs /\ pollEmv \in EmvConfigs \cup {EmvIdle, EmvAsked}
  /\ {sessionEmv, localEmvConfig, cfg, typedCfg} \subseteq EmvConfigs \cup {NoConfig}
  /\ emvModalOpen \in BOOLEAN /\ saveError \in BOOLEAN /\ trusted \in BOOLEAN
  /\ emvSaves \in 0 .. MaxEmvSaves
  /\ saving \in ({"sent", "stored"} \X EmvConfigs) \cup {EmvIdle}

Badge == EffectiveEmv(localEmvConfig, sessionEmv)

\* "So the badge updates immediately on save": with no save under way, no save
\* failed, no change elsewhere and the page not left before the list followed, the
\* badge is the agent's configuration, however old the list that lands after it.
BadgeIsAgents == trusted /\ saving = EmvIdle /\ sessionEmv # NoConfig => Badge = agentEmv

\* The poll of the list, every five seconds, never rewrites the draft of a dialog
\* that is open.
DraftIsTyped == emvModalOpen => cfg = typedCfg

\* The three copies of a row's EMV configuration (dialog, row, list) meet only where
\* the user or the agent meant them to.
RowIsAgents == BadgeIsAgents /\ DraftIsTyped
=============================================================================
