CONSTANTS
  Layouts <- MCLayouts
  ObsCols = 6
SPECIFICATION Spec
INVARIANTS
  TransportedOnce PosteriorCarriedOnce JacobianComplete NumbersNameFields
