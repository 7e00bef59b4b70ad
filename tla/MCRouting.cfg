CONSTANTS
    BaseIds <- AllIds
    Boot <- Others
    Flapping = {7}
    Flow <- AllFlow
SPECIFICATION FairSpec
INVARIANTS
    RoutingTypeOK
    NeverMisdelivered
    ChargedWhereItGoes
    StaysBelow
PROPERTIES
    Delivered
