CONSTANTS
    Polls = {p1, p2}
    MaxCount = 2
    NoValue = NoValue
SPECIFICATION Spec
PROPERTY DisplayNeverRegresses
