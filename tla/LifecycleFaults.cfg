SPECIFICATION Spec
CONSTANTS
  Faulty = {"usbg_init", "create_gadget", "create_function", "create_config", "add_function",
            "get_udc", "eventfd", "make_path", "mount", "open_ctrl", "descs", "strings", "open_in",
            "open_out", "io_setup", "enable", "run", "disable", "close_in", "close_out",
            "close_ctrl", "umount", "rm_gadget"}
  MayKill = TRUE
  MaxBoots = 3
INVARIANT TypeOK
INVARIANT LocalsOutliveUse
INVARIANT CleanExit
INVARIANT FilesUnderMount
PROPERTY KeepsHandshake
\* The last program ends, or main waits for a thread that has returned.
CHECK_DEADLOCK FALSE
