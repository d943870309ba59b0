SPECIFICATION NqfsSpec
CONSTANTS
  FILEPTR_SECTORS = 2
  FILEPTR_PER_SECTOR = 2
  NQFS_STORAGE_BYTES_SECTOR = 2
  SECTOR_SIZE = 4
  RAMFS_BYTES = 28
  WORD = 128
  Byte = {0, 1, 2}
  Inputs <- MCInputs
  MAX_READ = 5
PROPERTY
  ReadReturnsCount
