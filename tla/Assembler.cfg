SPECIFICATION AssemblerSpec
CONSTANTS
  Chars = {"CR", "LF", "Ctrl"}
  MaxDelta = 2
  MaxText = 3
  MaxReasoning = 1
  MaxArguments = 1
  ToolIds = {i1, i2}
  Offered = {n1}
  Unoffered = {n2}
  MaxToolCalls = 2
  MaxEvents = 7
INVARIANTS
  ChunkingInvisible
  ProgressIsText
  ResponseIsStream
