SPECIFICATION Spec
CONSTANTS
  Logn = 3
  Zero = 0
  Value = {1}
  Garbage = Garbage
  Nil = Nil
  Orders = {"reverse", "affine"}
  Order <- MC_Order
  Bounds <- MC_Bounds
INVARIANTS LookedUpOnce ScheduleFits LevelsInStep
PROPERTY ImplementsRam
