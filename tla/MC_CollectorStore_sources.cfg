SPECIFICATION FairSpec
CONSTANTS
  Identifier <- MCIdentifier
  Reference <- MCReference
  Summary <- MCSummary
  None = None
  MaxArtifactBytes = 2
  MaxChunks = 4
  MaxLength = 8
  c1 = c1
  c2 = c2
  h1 = h1
  h2 = h2
  genesis = genesis
  noStream = noStream
  Genesis = genesis
  NoStream = noStream
  NoFile = NoFile
  Unbound = Unbound
  NoManifest = NoManifest
  NoHandler = NoHandler
  NoRequest = NoRequest
  Event <- MixedEvents
  Source <- FourSources
  LegacySource <- MixedLegacySources
  LegacyEvent <- MixedLegacyEvents
  StreamId <- Streams
  MaxFaults = 1
  Handler = {h1, h2}
  Cert = {c1}
INVARIANTS
  LegacyStaysBlocked
PROPERTIES
  ManifestIsFinal
  LockIsReleased
