SPECIFICATION Spec
CONSTANTS
  Cartridges = {"MBC1", "MBC2", "MBC3", "MBC5", "MBC7", "HuC1", "HuC3"}
  Values = {{}, {0}, {1, 3}, {2, 7}}
  RomMask = {0, 1, 2, 3, 4, 5, 6, 7, 8}
  RamMask = {0, 1}
  Slots = {s1}
INVARIANTS LoadRestoresMap BankIsSelected
