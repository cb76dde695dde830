------------------------------- MODULE PixQrPage -------------------------------
(***************************************************************************)
(* The PIX QR code page: a pane that generates a payload and its image, a  *)
(* pane that decodes a payload, and the payload handed from one to the     *)
(* other.  Only the open pane is mounted.                                  *)
(***************************************************************************)
EXTENDS Naturals, FiniteSets

CONSTANTS Keys,        \* PIX keys; a payload, its decoding, its image and a key's
                       \* analysis are named by the key they were made of
          MaxPix,      \* bound: requests sent
          NoKey

ASSUME PixAssumption == MaxPix \in Nat /\ NoKey \notin Keys

VARIABLES
  qrTab, pendingDecode,    \* "decode", "generate"; the payload handed over
  decodePayload, decodeResult, decodeError, decodeLoading,
  pixKey, keyFocused, keyAnalysis,
  qrPayload, qrImage, genStep, genError,  \* genStep: <<"idle" | "asked" | "drawing", payload>>
  testDataLoading,
  pixCalls, pixAsked,      \* unanswered: <<serial, kind, key, "mounted" | "left">>, the pane
  handedOver, keyCalm      \* history: the payload handed and not edited since; no key
                           \* was changed or analysed over an open analysis

decodePane == <<decodePayload, decodeResult, decodeError, decodeLoading>>
keyField == <<pixKey, keyFocused, keyAnalysis, testDataLoading, keyCalm>>
preview == <<qrPayload, qrImage, genStep>>
generatePane == <<keyField, preview, genError>>
pixQueue == <<pixCalls, pixAsked>>
pixVars == <<qrTab, pendingDecode, decodePane, generatePane, pixQueue, handedOver>>

Pay == Keys \cup {NoKey}
Still(kind) == {c \in pixCalls : c[2] = kind}

PixInit ==
  /\ qrTab = "decode" /\ pendingDecode = NoKey
  /\ decodePayload = NoKey /\ decodeResult = NoKey /\ decodeError = FALSE /\ decodeLoading = FALSE
  /\ pixKey = NoKey /\ keyFocused = FALSE /\ keyAnalysis = NoKey
  /\ qrPayload = NoKey /\ qrImage = NoKey /\ genStep = <<"idle", NoKey>> /\ genError = FALSE
  /\ testDataLoading = FALSE /\ pixCalls = {} /\ pixAsked = 0 /\ handedOver = NoKey /\ keyCalm = TRUE

FreshGeneratePane ==
  /\ pixKey' = NoKey /\ keyFocused' = FALSE /\ keyAnalysis' = NoKey /\ testDataLoading' = FALSE
  /\ qrPayload' = NoKey /\ qrImage' = NoKey /\ genStep' = <<"idle", NoKey>> /\ genError' = FALSE
  /\ keyCalm' = TRUE

AskPix(kind, key, others) ==
  /\ pixAsked < MaxPix /\ pixAsked' = pixAsked + 1
  /\ pixCalls' = others \cup {<<pixAsked', kind, key, "mounted">>}

\* The calls of a pane that unmounts: a decoding that was handed over still ends
\* in onConsumed; the others go nowhere.
Orphans == {<<c[1], c[2], c[3], "left">> : c \in Still("handed")}

\* The effect of a decode pane that mounts, or that is rendered again while a
\* payload is pending: onConsumed is another function each time.
HandOffEffect(p, others) ==
  IF p = NoKey THEN UNCHANGED pixAsked /\ pixCalls' = others ELSE AskPix("handed", p, others)

\* The tab, or "Decode" under a payload.
OpenDecodeTab(p) ==
  /\ qrTab = "generate" /\ qrTab' = "decode" /\ pendingDecode' = p /\ FreshGeneratePane
  /\ decodePayload' = p /\ decodeResult' = NoKey /\ decodeError' = FALSE
  /\ decodeLoading' = (p # NoKey) /\ handedOver' = p /\ HandOffEffect(p, Orphans)

OnDecodeRequested == qrPayload # NoKey /\ OpenDecodeTab(qrPayload)

OpenGenerateTab ==
  /\ qrTab = "decode" /\ qrTab' = "generate" /\ UNCHANGED <<pendingDecode, pixAsked>>
  /\ decodePayload' = NoKey /\ decodeResult' = NoKey /\ decodeError' = FALSE /\ decodeLoading' = FALSE
  /\ handedOver' = NoKey /\ FreshGeneratePane /\ pixCalls' = Orphans

\* The language changes: the page renders again.
PageRenders ==
  /\ qrTab = "decode" /\ pendingDecode # NoKey
  /\ decodePayload' = pendingDecode /\ decodeError' = FALSE /\ decodeLoading' = TRUE
  /\ handedOver' = pendingDecode /\ HandOffEffect(pendingDecode, pixCalls)
  /\ UNCHANGED <<qrTab, pendingDecode, decodeResult, generatePane>>

EditPayload ==
  /\ qrTab = "decode" /\ decodePayload' \in Pay \ {decodePayload} /\ handedOver' = NoKey
  /\ UNCHANGED <<qrTab, pendingDecode, decodeResult, decodeError, decodeLoading, generatePane, pixQueue>>

HandleDecode ==
  /\ qrTab = "decode" /\ decodePayload # NoKey /\ ~decodeLoading
  /\ decodeLoading' = TRUE /\ decodeError' = FALSE /\ AskPix("decode", decodePayload, pixCalls)
  /\ UNCHANGED <<qrTab, pendingDecode, decodePayload, decodeResult, generatePane, handedOver>>

\* A failure leaves the earlier decoding on screen.
DecodeEnds ==
  \E c \in Still("handed") \cup Still("decode") :
    /\ pixCalls' = pixCalls \ {c}
    /\ IF c[4] = "mounted"
       THEN /\ decodeLoading' = FALSE
            /\ \/ decodeResult' = c[3] /\ UNCHANGED decodeError
               \/ decodeError' = TRUE /\ UNCHANGED decodeResult
       ELSE UNCHANGED <<decodeLoading, decodeResult, decodeError>>
    /\ pendingDecode' = IF c[2] = "handed" THEN NoKey ELSE pendingDecode
    /\ UNCHANGED <<qrTab, decodePayload, generatePane, pixAsked, handedOver>>

EditKey ==
  /\ qrTab = "generate" /\ pixKey' \in Pay \ {pixKey} /\ keyFocused' = TRUE
  /\ keyCalm' = (keyCalm /\ Still("analyse") = {})
  /\ UNCHANGED <<qrTab, pendingDecode, decodePane, keyAnalysis, testDataLoading, preview, genError,
                 pixQueue, handedOver>>

\* onBlur.
AnalyseKey ==
  /\ keyFocused /\ keyFocused' = FALSE /\ keyCalm' = (keyCalm /\ Still("analyse") = {})
  /\ IF pixKey = NoKey THEN keyAnalysis' = NoKey /\ UNCHANGED pixQueue
     ELSE AskPix("analyse", pixKey, pixCalls) /\ UNCHANGED keyAnalysis
  /\ UNCHANGED <<qrTab, pendingDecode, decodePane, pixKey, testDataLoading, preview, genError, handedOver>>

AnalysisEnds ==
  \E c \in Still("analyse") :
    /\ pixCalls' = pixCalls \ {c} /\ keyAnalysis' \in {c[3], NoKey}
    /\ UNCHANGED <<qrTab, pendingDecode, decodePane, pixKey, keyFocused, testDataLoading, keyCalm,
                   preview, genError, pixAsked, handedOver>>

HandleLoadTestData ==
  /\ qrTab = "generate" /\ ~testDataLoading /\ testDataLoading' = TRUE /\ AskPix("test", NoKey, pixCalls)
  /\ UNCHANGED <<qrTab, pendingDecode, decodePane, pixKey, keyFocused, keyAnalysis, keyCalm, preview,
                 genError, handedOver>>

\* The key is typed over, and its badge dropped.
TestDataEnds ==
  \E c \in Still("test") :
    /\ pixCalls' = pixCalls \ {c} /\ testDataLoading' = FALSE
    /\ \/ /\ pixKey' \in Keys /\ keyAnalysis' = NoKey /\ UNCHANGED genError
          /\ keyCalm' = (keyCalm /\ Still("analyse") = {})
       \/ genError' = TRUE /\ UNCHANGED <<pixKey, keyAnalysis, keyCalm>>
    /\ UNCHANGED <<qrTab, pendingDecode, decodePane, keyFocused, preview, pixAsked, handedOver>>

HandleGenerateQr ==
  /\ qrTab = "generate" /\ genStep[1] = "idle" /\ genError' = FALSE
  /\ genStep' = <<"asked", pixKey>> /\ AskPix("generate", pixKey, pixCalls)
  /\ UNCHANGED <<qrTab, pendingDecode, decodePane, keyField, qrPayload, qrImage, handedOver>>

\* The payload is shown before its image is drawn.
PayloadComes ==
  \E c \in Still("generate") :
    /\ pixCalls' = pixCalls \ {c}
    /\ \/ c[3] # NoKey /\ genStep' = <<"drawing", c[3]>> /\ qrPayload' = c[3] /\ UNCHANGED genError
       \/ genStep' = <<"idle", NoKey>> /\ genError' = TRUE /\ UNCHANGED qrPayload
    /\ UNCHANGED <<qrTab, pendingDecode, decodePane, keyField, qrImage, pixAsked, handedOver>>

\* Or the payload is too long for a QR code: the earlier image stays over it.
ImageComes ==
  /\ genStep[1] = "drawing" /\ genStep' = <<"idle", NoKey>>
  /\ \/ qrImage' = genStep[2] /\ UNCHANGED genError
     \/ genError' = TRUE /\ UNCHANGED qrImage
  /\ UNCHANGED <<qrTab, pendingDecode, decodePane, keyField, qrPayload, pixQueue, handedOver>>

PixNext ==
  \/ OpenDecodeTab(pendingDecode) \/ OnDecodeRequested \/ OpenGenerateTab \/ PageRenders
  \/ EditPayload \/ HandleDecode \/ DecodeEnds \/ EditKey \/ AnalyseKey \/ AnalysisEnds
  \/ HandleLoadTestData \/ TestDataEnds \/ HandleGenerateQr \/ PayloadComes \/ ImageComes
PixSpec == PixInit /\ [][PixNext]_pixVars

-----------------------------------------------------------------------------
PixKinds == {"handed", "decode", "analyse", "test", "generate"}
PixCalls == (1 .. MaxPix) \X PixKinds \X Pay \X {"mounted", "left"}
GenSteps == {"idle", "asked", "drawing"} \X Pay
PixFlagsOK ==
  /\ decodeError \in BOOLEAN /\ decodeLoading \in BOOLEAN /\ keyFocused \in BOOLEAN
  /\ genError \in BOOLEAN /\ testDataLoading \in BOOLEAN /\ keyCalm \in BOOLEAN
PixTypeOK ==
  /\ PixFlagsOK
  /\ qrTab \in {"decode", "generate"} /\ pendingDecode \in Pay /\ handedOver \in Pay
  /\ decodePayload \in Pay /\ decodeResult \in Pay /\ pixKey \in Pay /\ keyAnalysis \in Pay
  /\ qrPayload \in Pay /\ qrImage \in Pay /\ genStep \in GenSteps
  /\ pixAsked \in 0 .. MaxPix /\ pixCalls \subseteq PixCalls

\* A payload handed over is consumed once its decoding ended, well or not: it is
\* not decoded again, over what the user has typed, by a later render.
HandOffIsConsumed == qrTab = "decode" /\ Still("handed") = {} => pendingDecode = NoKey

\* What was handed over and not edited since is in the box, and in the end it is
\* what the summary is of, or an error says why not.
HandOffIsShown ==
  handedOver # NoKey =>
    /\ decodePayload = handedOver
    /\ Still("handed") \cup Still("decode") = {} => decodeError \/ decodeResult = handedOver

\* At rest and without an error the QR code drawn is that of the payload under it.
ImageIsOfPayload == genStep[1] = "idle" /\ ~genError => qrImage = qrPayload

\* At rest the badge under the key is that key's, unless a key was changed or
\* analysed over an open analysis.
CalmBadgeIsOfKey ==
  keyCalm /\ ~keyFocused /\ Still("analyse") = {} => keyAnalysis \in {pixKey, NoKey}
=============================================================================
