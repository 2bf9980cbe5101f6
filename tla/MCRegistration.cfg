\* Six registrations, four of one address, three refused; two faults.
SPECIFICATION FairSpec
CONSTANTS
  r1 = r1
  r2 = r2
  r3 = r3
  r4 = r4
  r5 = r5
  r6 = r6
  a = a
  b = b
  Requests = {r1, r2, r3, r4, r5, r6}
  Addresses = {a, b}
  AddressOf <- MCAddressOf
  PasswordOf <- MCPasswordOf
  RefusedBy <- MCRefusedBy
  MaxFaults = 2
INVARIANTS
  TypeOK
  OneAccountOneEvent
  ConflictMeansTaken
  CreatedCanLogIn
PROPERTIES
  RegistrationEnds
CHECK_DEADLOCK FALSE
