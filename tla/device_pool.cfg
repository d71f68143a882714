\* Every list of up to two platforms of either backend, each with up to
\* two devices that are not GPUs, GPUs without tiles or GPUs of two tiles,
\* under both settings of SYCL_DEVICE_FILTER and SYCL_TILE_AS_DEVICE, and
\* every sequence of SYCLGetDeviceCount and SYCLGetDevice calls.
CONSTANT
    Ordinals <- MCOrdinals
SPECIFICATION PoolSpec
INVARIANT DeviceListMatchesReference
INVARIANT DeviceOrdinals
