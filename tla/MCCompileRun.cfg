SPECIFICATION Spec
CONSTANTS Compiler <- Compile
          Meaning <- ProgramMeaning
          StackMax = 40
          Programs <- MCPrograms
          Breaks = 2
INVARIANTS
  CompiledMeansSource
  CodeWellFormed
  TrapsBalanced
PROPERTIES
  StreamFaithful
