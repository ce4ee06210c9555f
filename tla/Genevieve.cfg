SPECIFICATION Spec
CONSTANTS
  r1 = r1
  r2 = r2
  r3 = r3
  x = x
  y = y
  openai = openai
  gemini = gemini
  Registrar <- MCRegistrar
  Asker <- MCAsker
  Name <- MCName
  Empty = Empty
  All = All
  Offers <- MCOffers
  Asks <- MCAsks
  Mutes <- MCMutes
INVARIANTS
  OneWinner
  AllAnswered
PROPERTY
  CallsReturn
