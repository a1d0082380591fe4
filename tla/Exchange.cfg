\* Names and dates of a volume that machines in three zones exchange.
SPECIFICATION ExchangeSpec
CONSTANTS
  NameMax = 3
  FibMax = 2
  PathMax = 16
  upcase <- MCupcase
  Zones <- MCZones
  Instants <- MCInstants
  Foreign <- MCForeign
  PosixNames <- MCPosixNames
  AmigaNames <- MCAmigaNames
  ForeignNames <- MCForeignNames
  MaxNames = 2
  Units <- MCUnits
INVARIANTS
  MtimeKept
  ShownFindsItself
  ConversionsExact
