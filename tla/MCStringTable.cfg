SPECIFICATION Spec
CONSTANTS Texts = {"a", "b", "c", "d", "e", "f"}
          p1 = p1
          p2 = p2
          p3 = p3
          p4 = p4
          p5 = p5
          p6 = p6
          Addresses <- MCAddresses
          Hash <- MCHash
          MaxRefs = 2
SYMMETRY MCSymmetry
INVARIANTS
  InternedOnce
