SPECIFICATION DiskSpec
CONSTANT MaxSize = 4
PROPERTY OnlyExpands
