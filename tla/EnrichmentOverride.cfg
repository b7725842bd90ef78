\* One worker, nothing fails.
CONSTANTS
    i1 = i1
    i2 = i2
    Issues <- MCIssues
    Clerks = {c1}
    None = None
    MaxFaults = 0

SPECIFICATION Spec

PROPERTY HumanChoiceStands
