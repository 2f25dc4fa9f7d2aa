CONSTANTS
  BUFFER_SIZE = 4
  PromptCells = 2
  KERNEL_LOAD_ADDR = 136
  RELOCATE_ADDR = 142
  LoaderSize = 4
  LoadLine <- MCLoadLine
  Typed <- MCTyped
  Stray <- MCStray
  TypesAhead = FALSE
  MaxLine = 4
  Kernels <- MCKernels
  GivesUpAfter <- Nowhere
  CELL = 256
  CPIO_HEADER_SIZE = 2
  PAGE_SIZE = 8
  HPAGE_SIZE = 16
  PGD_SPAN = 128
  PAGE_OFFSET = 1024
  RAM_BASE = 128
  RAM_LIMIT = 192
  Devices <- MCDevices
  IMAGE_START = 1160
  IMAGE_END = 1181
  INT_SIZE = 1
  MAX_RESERVED_REGIONS = 8
  INITRD_RESERVE = 32
  FrameBuffers <- MCFrameBuffers
  Machines <- MCMachines
SPECIFICATION Spec
INVARIANTS
  KernelIsWhole
  DevicesAreFound
  FreePagesAreUsable
  FilesAreFound
PROPERTIES
  RunsWhatIsShown
  SentKernelRuns
