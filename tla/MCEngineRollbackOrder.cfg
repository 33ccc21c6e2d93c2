SPECIFICATION Spec
CONSTANTS
  h1 = h1
  h2 = h2
  Hooks <- MCHooks
  Strategies = {"try_catch_with_fallback", "component_restart"}
  Captures = {"a", "b"}
  MaxFixes = 3
  MaxTimeouts = 2
INVARIANTS
  RolledBackIsGone
