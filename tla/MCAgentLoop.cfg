CONSTANTS
    MaxNode = 4
    MaxPlan = 3
    Obligation = {o1}
    Path = {}
SPECIFICATION AgentSpec
INVARIANTS
    NeverStuck
PROPERTIES
    AgentAdvances
    AgentFinishes
CHECK_DEADLOCK FALSE
