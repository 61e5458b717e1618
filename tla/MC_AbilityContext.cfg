\* Three concurrent startAbilityByCall[WithAccount] calls, answered in any order.
CONSTANTS
  Calls = {k1, k2, k3}
  AccountCalls = {k3}
  Configs = {cf1, cf2}
SPECIFICATION Spec
INVARIANT CallOutcome
PROPERTY CallSettles
