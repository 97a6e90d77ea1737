\* main's CEP 89035300, known to the services.
CONSTANTS
    Cep = "89035300"
    KnownCeps = {"89035300"}
    APIs = {"BrasilAPI", "ViaCEP"}
SPECIFICATION Spec
INVARIANT PrintedAddressIsRequested
CHECK_DEADLOCK FALSE
