\* One function with BARs of every kind; moved and sized in any order.
SPECIFICATION BarsSpec
CONSTANTS
    Dword = 256
    WindowUnit = 16
    Header = 0
    Layouts <- MixedLayouts
    Addresses <- EvenAddresses
INVARIANTS
    SizingExact
PROPERTIES
    ImplementsDecoder
