SPECIFICATION Spec
CONSTANTS
    Nothing = Nothing
    ConfigFiles <- MCConfigFiles
    Manifests <- MCManifests
    Slots = {1, 2}
    WellFormed <- MCWellFormed
    AppVersion <- MCVersion
    MaxEdits = 1
INVARIANTS
    AdvertisedIsServed
    PluginsFailAlone
    ConfigurationIsFollowed
