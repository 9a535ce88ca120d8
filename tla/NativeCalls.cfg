SPECIFICATION FairSpec
CONSTANTS
    Threads = {t1, t2}
    Nobody = nobody
    Texts = {"a", "b"}
    Platforms = {"android", "jvm", "ios"}
INVARIANTS
    TypeOK
    OwnText
    CallbackLives
PROPERTIES
    Returns
