CONSTANTS
  u1 = u1
  u2 = u2
  u3 = u3
  Users = {u1, u2, u3}
SPECIFICATION PoolFairSpec
INVARIANTS PoolNotExhausted
PROPERTY CallsReturn
