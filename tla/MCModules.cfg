CONSTANTS
  MaxProbes = 3
  Faults = {"resource", "busy", "ioremap", "parent", "kthread_run"}
  Users = {u1, u2, u3}
  MaxLoads = 4
  Names <- MCNames
  EpmFaults = {"alloc_chrdev_region", "class_create", "kmalloc", "cdev_add", "spi_register_driver"}
  VideoFaults = {"kzalloc", "v4l2_device_register", "video_device_alloc", "video_register_device"}
  FbFaults = {"device", "driver", "dma_mask", "devm_drm_dev_init", "drm_connector_init", "drm_simple_display_pipe_init", "drm_dev_register"}
  BusFaults = {"bus_register", "custom_bus_parent", "cus_dev", "driver_register"}
SPECIFICATION ModSpec
INVARIANTS
  ReaderConfined
  PwmReturned
  EpmSafe
  VideoSafe
  FbSafe
  BusSafe
  BoundExactly
PROPERTIES
  ExitCompletes
