SPECIFICATION GrowSpec
CONSTANTS
  MEMORY_TABLE_TOTAL_ENTRYS = 3
  SWAP_TABLE_ENTRY_NUM = 1
  SWAP_FILE_PAGES = 2
  USERTOP = 7
  TextPages = 1
  Value = {0, 1}
  Zero = 0
  Text = 0
  LeftPage = {1, 5}
  Self = p
CONSTRAINTS OneMark Strays
VIEW Frameless
CHECK_DEADLOCK FALSE

  
PROPERTIES
  
  PagingIsInvisible
