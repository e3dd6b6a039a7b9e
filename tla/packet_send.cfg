SPECIFICATION Spec
CONSTANTS
  MessageSizes = {16384, 20000}
  ClientIds <- McClientIds
  Wills <- McWills
  Usernames <- McUsernames
  Passwords <- McPasswords
  Topics <- McTopics
  Payloads <- McPayloads
  OtherPackets <- McOtherPackets
  Faults = {"send"}
INVARIANTS
  SentIsWhole
  RefusedOnlyTooLarge
  ConnectSaysSettings
  TopicsAreLegal
