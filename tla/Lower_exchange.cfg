SPECIFICATION Spec
CONSTANTS
    Imported <- MCImported
    Programs <- ExchangePrograms
    GPRegs <- MCGPRegs
    XmmRegs <- MCXmmRegs
    Fuel = 30
INVARIANT SameBehaviour
