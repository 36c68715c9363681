CONSTANTS
    None = None
    internal = internal
    p = p
    q = q
    s = s
    o1 = o1
    XXX = XXX
    home = home
    airportA = airportA
    airportB = airportB
    airportC = airportC
    townAirport = townAirport
    branch = branch
    station = station
    hall = hall
    town = town
    townCentral = townCentral
    townCentralStation = townCentralStation
    Names <- MCNames
    NamedType <- MCNamedType
    NamedCity <- MCNamedCity
    Cities <- MCCities
    Display <- MCDisplay
    Providers <- MCProviders
    Catalogs <- MCCatalogs
    MaxHops = 2
SPECIFICATION Spec
CHECK_DEADLOCK FALSE
INVARIANTS
    TypeOK
    EntryHasOneRow
    LostOnlyToOurs
    IataStaysNear
    FoundIsShown
PROPERTIES
    FailedKeepsIds
