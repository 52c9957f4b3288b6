SPECIFICATION PagesSpec
CONSTANTS
  Pages = {"listing"}
  p1 = p1
  p2 = p2
  street = street
  i1 = i1
  Places = {p1, p2}
  Typed = {street}
  Short = Short
  Empty = Empty
  NoPlace = NoPlace
  Device = Device
  Found <- MCFound
  MaxSearches = 2
  MaxInputs = 3
  Images = {i1}
  Listings = {1, 2}
  Mine = 1
  ProductOf <- MCProductOf
  Prices = {10, 20}
  Quantities = {1, 2}
  Days = {d1}
  ImageLimit = 2
  MaxPreviews = 2
  MaxChanges = 2
  Submits = {1, 2}
  MaxChoices = 2
  MaxSaves = 2
  MaxDeletions = 1
  MaxActs = 4
  NoPicture = NoPicture
  Former = Former
  Types = {t1}
  Listed = {l1}
  Nobody = Nobody
  Unset = Unset
  NoFilter = NoFilter
  Queries = {q1}
  NoQuery = NoQuery
  MaxMessages = 3
  Shelved = {c1, c2, c3, c4, c5}
  PerPage = 2
  SlideSizes = {1, 2}
  MaxFetches = 2
  MaxViews = 1
  MaxChats = 2
  MaxTexts = 2
  Me = Me
  Others = {u1, u2}
  Names = {n1}
  Brief = Brief
  Blank = Blank
  ThisPage = ThisPage
  AllChats = AllChats
  MaxAsks = 3
PROPERTIES
  EditIsOfTheListing
CHECK_DEADLOCK FALSE
