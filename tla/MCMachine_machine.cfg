SPECIFICATION Spec
CONSTANTS
    Top = 1024
    Programs <- AllPrograms
INVARIANTS
    ValuesOnVM
    ValuesNative
    CallsAligned
    RegisterDiscipline
    RegistersApart
PROPERTIES
    EveryProgramEnds
