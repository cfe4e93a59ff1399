SPECIFICATION Spec
CONSTANTS
  web = web
  syslog1 = syslog1
  syslog2 = syslog2
  host = host
  data = data
  dataSlash = dataSlash
  usb = usb
  sda = sda
  sdb = sdb
  bucket = bucket
  None = None
  Workloads <- MCWorkloads
  Scripts <- MCStorageScripts
  Names = {syslog1, syslog2}
  Directories = {data, dataSlash, usb}
  Places = {data, usb}
  Place <- MCPlace
  Parsed <- MCParsed
  Devices = {sda, sdb}
  BufferSize = 0
  MaxLines = 2
  MaxTicks = 1
  MaxFaults = 0
CHECK_DEADLOCK FALSE
INVARIANTS
  PathsOnConnected
