CONSTANTS
  client = client
  server = server
  extra = extra
  pages = pages
  main = main
  path1 = path1
  path2 = path2
  hash1 = hash1
  hash2 = hash2
  Participants = {client, server, extra}
  Required = {client, server}
  Postprocessors = {pages}
  Keys = {main}
  Paths = {path1, path2}
  Hashes = {hash1, hash2}
  AssetMaps <- MCAssetMaps
SPECIFICATION FairSpec
\* A session that was answered has nothing left to do.
CHECK_DEADLOCK FALSE
INVARIANTS
  UploadIsWhole
  UploadIsConsistent
  RollbackOncePerFailure
  AnswerMatchesState
PROPERTIES
  KeepsItsPromise
  PublishIsAnswered
