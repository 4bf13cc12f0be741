CONSTANTS
    Mime <- MCMime
    Registrations <- MCRegistrations
    BaseDir <- MCBaseDir
    Index <- MCIndex
    Files <- MCFiles
    Meant <- MCMeant
    RawTargets <- MCRawTargets
    MaxRoutes = 2
SPECIFICATION Spec
INVARIANT NoHandlerIs405
