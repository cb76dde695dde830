SPECIFICATION Spec
CONSTANTS
  Ports = {p1}
  Slots = {1, 2}
  MaxResponses = 1
  NoTimer = NoTimer
  MtMessages = {m1, m2}
  BlankMt = BlankMt
  Rows = {r1}
  NoTable = NoTable
  NoJob = NoJob
  NoMx = NoMx
  Protocols = {"pix", "iso8583"}
  Flows = 2
  MaxGenerated = 2
  NoFlow = NoFlow
  NoStep = NoStep
  Bits = {2, 55, 90}
  Prescribed <- MCPrescribed
  Opened <- MCOpened
  MaxClicks = 3
  NoBuild = NoBuild
  Types = {t1, t2}
  NoType = NoType
  NoField = NoField
  MaxFetches = 3
  TreeNodes <- MCTreeNodes
  Above <- MCAbove
  NoNode = 0
  XPaths = {"x1", "x2"}
  PanelTypes = {"T1", "T2"}
  NoPanel = NoPanel
  UsedInTypes <- MCUsedInTypes
  Cardinalities <- MCCardinalities
  XsdTypes = {"text", "code"}
  MaxOccurrences = 3
  CmpFamilies = {1, 2}
  Ids <- MCIds
  Versions <- MCVersions
  MaxCompares = 2
  MessageVersions = {1, 2, 3}
  Xmls = {x1, x2}
  Returns = {"r1", "r2"}
  NoXml = NoXml
  MaxRequests = 3
  Wires = {w1, w2}
  BlankInput = BlankInput
  NoResult = NoResult
  MaxParses = 3
  MapBits = {1, 65}
  Empty = Empty
  Partial = Partial
  MaxDecodes = 3
  Hexes = {h1, h2}
  Pans = {pan1}
  DefaultPan = DefaultPan
  BlankHex = BlankHex
  EmvTabs = {"parse", "validate"}
  NoAnswer = NoAnswer
  MaxAsked = 2
  g1 = g1
  Configs = {g1, g2}
  WsIdle = WsIdle
  WsAsked = WsAsked
  NoWsData = NoWsData
  MaxSaves = 2
  Families = {f1, f2}
  UpIdle = UpIdle
  UpAsked = UpAsked
  NoSchemas = NoSchemas
  MaxUploads = 2
  NoRow = NoRow
  MaxTemplates = 3
  MaxIds = 4
  Keys = {k1, k2}
  NoKey = NoKey
  MaxPix = 3
  Lengths = {65535, 65636}
  Leads = {12338}
CHECK_DEADLOCK FALSE
INVARIANTS PagesTypeOK LoopIsOwned   HandOffsArrive   AgreedCallsAnswered
PROPERTY LoopSendsItsRequest  
