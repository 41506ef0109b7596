\* Two requests, two mutations that take effect.
CONSTANTS
    c1 = c1
    c2 = c2
    Client <- MCClient
    MaxVersion = 2
SPECIFICATION Spec
PROPERTIES
    StaleInfoExpires
