SPECIFICATION Spec
CONSTANTS
    MaxPorts = 1
    MaxScans = 2
    Found <- MCFound
    Forms <- MCForms
    Saved <- MCSaved
    Chosen <- MCChosen
    Clicks = {3}
    Columns = {"Risk"}
INVARIANTS TypeOK ChartShowsRows DetailsOfSelection StatusSettles RiskiestFirst
    SettingsInForce ScansInScope
PROPERTIES StartsAreAccepted ExportFaithful
