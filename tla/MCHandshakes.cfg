\* Two of everything that can be crossed: labels, phones, guests, accounts,
\* controllers; and one change under the feet of each: a slot re-keyed, a
\* factory reset. The generator: two extras, three draws of a seed, two
\* reseeds after the first.
CONSTANTS
  Secrets = {"card", "other"}
  Prologues = {"here", "there"}
  Phones = {pa, pb}
  Speaks <- MCSpeaks
  Version <- MCVersion
  MaxConns = 2
  MaxHellos = 2
  MaxRekeys = 1
  Guests = {"a", "b"}
  Roles = {"admin", "viewer"}
  MaxInvites = 2
  MaxResets = 1
  Accounts = {"x", "y"}
  Devices = {"unit", "spare"}
  Recorded = {"unit"}
  MaxIssues = 2
  MaxAnswers = 2
  MaxChanges = 1
  Extras = {"nothing", "noise"}
  MaxDraws = 3
  LastSeed = 2
SPECIFICATION HandshakesSpec
INVARIANTS PairOpensAsWritten SessionAgreed SoundHelloOpens InviteAgreed LinkedAsVouched
INVARIANTS NeverDrawnTwice ProbeYieldsNoPastDraw
SYMMETRY Twins
CHECK_DEADLOCK FALSE
