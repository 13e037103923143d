SPECIFICATION Spec
CONSTANTS
  Links = {"usbmon", "ethernet"}
  UsbLinks = {"usbmon"}
  Forms = {"urb"}
  MaxBlocks = 5
INVARIANTS
  LoadedIsPrefix
  ClosedFileLoads
  IInv
