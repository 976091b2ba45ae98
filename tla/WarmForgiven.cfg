\* A warm session refused once, served, and refused again.
CONSTANTS
    chat = chat
    test = test
    convA = convA
    ses1 = ses1
    ses2 = ses2
    NoSeed = NoSeed
    NoSession = NoSession
    Requests = {chat, test}
    Testers = {test}
    Seeds = {convA}
    Sessions = {ses1, ses2}
    MemoLimit = 1
    WarmLimit = 1
    RefusalLimit = 2
    ProbeAttempts = 1
SPECIFICATION Spec
PROPERTIES
    ServingForgives
