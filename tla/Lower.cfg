CONSTANTS
    Imported <- MCImported
    Programs <- MCPrograms
    GPRegs <- MCGPRegs
    XmmRegs <- MCXmmRegs
    Fuel = 30
SPECIFICATION Spec
INVARIANTS TypeOK SameBehaviour RegistersSound FrameSound PassesEnd
